---- MODULE Spec2Model ----
(***************************************************************************)
(* P2DFFT: the per-radius analysis loop of p2dfft.cpp (remap of the FFT    *)
(* output, accumulation of the summed spectrum, the extractor driver) and  *)
(* the extractor of pitch_class.cpp (pitch_phase, snr, fwhm).              *)
(*                                                                         *)
(* Scale.  The program works on DIM_RAD = 2048 radial bins, a frequency    *)
(* range of -50..+50 in steps of STEP_P = 0.25 (200 steps on each side of  *)
(* the mid-frequency slot 1025), the scan window 824..1226 (one slot more  *)
(* than the labelled range on each side) and the modes 0..6.  The model    *)
(* keeps that geometry and scales it with FreqSteps: frequencies are       *)
(* counted in units of STEP_P, the labelled range is MidSlot-FreqSteps ..  *)
(* MidSlot+FreqSteps, the scan window is one slot wider on each side, and  *)
(* DIM_RAD leaves one more slot on each side of the window.                *)
(*                                                                         *)
(* Doubles.  A double is a triple <<kind, n, d>>: <<"fin", n, d>> is the   *)
(* rational n/d (d > 0), <<"nan", 0, 1>> is NaN, <<"inf", s, 1>> is        *)
(* s*infinity and <<"quo", n, v>> is n/sqrt(v) (the finite value of        *)
(* snr).  Rounding is not modelled and zero has no sign.                   *)
(***************************************************************************)
EXTENDS Integers, Sequences, FiniteSets, TLC

(* ------------------------------ bounds --------------------------------- *)

\* frequency steps on each side of zero (the program: FREQ_END/STEP_P = 200)
FreqSteps == 1

\* highest mode analysed (the program: 6)
M_FIN == 1

\* worker threads of the parallel loop (the program: omp_get_max_threads())
MaxThreads == 2

\* files on the work list
MaxFiles == 2

\* largest outer radius of an image; the loop handles the radii 1..radius-1
MaxRadius == 3

\* angle steps of the polar sampler (the program: 1024)
DIM_THT == 7

(* ----------------------------- constants ------------------------------- *)

M_INI == 0

PITCH_RET_OK == 1

PITCH_RET_NAN == 0

PITCH_RET_ERR == -1

PITCH_ERR_INVALID == 2049

PITCH_ERR_MAX_AMP == 2050

PITCH_ERR_ALLNANS == 2051

PITCH_ERR_SIGMA == 2052

PITCH_ERR_SCANFWHM == 2053

DIM_RAD == 2 * (FreqSteps + 2)

\* the mid-frequency (DC) slot: the literal 1025 = DIM_RAD/2 + 1
MidSlot == (DIM_RAD \div 2) + 1

LO_INDEX == MidSlot - (FreqSteps + 1)

HI_INDEX == MidSlot + (FreqSteps + 1)

\* in units of STEP_P
FREQ_START == 0 - FreqSteps

FREQ_END == FreqSteps

Modes == M_INI..M_FIN

Slots == 1..(DIM_RAD + 1)

Window == LO_INDEX..HI_INDEX

(* ------------------------------ doubles -------------------------------- *)

Fin(n) == <<"fin", n, 1>>

Rat(n, d) == <<"fin", n, d>>

NaN == <<"nan", 0, 1>>

PInf == <<"inf", 1, 1>>

NInf == <<"inf", -1, 1>>

\* the content of storage that was never assigned
Indet == <<"indet", 0, 1>>

IsNaN(x) == x[1] = "nan"

IsInf(x) == x[1] = "inf"

IsFin(x) == x[1] = "fin"

Sgn(n) == IF n > 0 THEN 1 ELSE IF n < 0 THEN -1 ELSE 0

Sign(x) == Sgn(x[2])

\* x < y of C: false as soon as one operand is NaN
Lt(x, y) ==
    IF IsNaN(x) \/ IsNaN(y) THEN FALSE
    ELSE IF IsFin(x) /\ IsFin(y) THEN x[2] * y[3] < y[2] * x[3]
    ELSE IF IsInf(x) /\ IsInf(y) THEN x[2] < y[2]
    ELSE IF IsInf(x) THEN x[2] < 0
    ELSE y[2] > 0

Gt(x, y) == Lt(y, x)

Neg(x) == IF IsNaN(x) THEN NaN ELSE <<x[1], 0 - x[2], x[3]>>

Add(x, y) ==
    IF IsNaN(x) \/ IsNaN(y) THEN NaN
    ELSE IF IsInf(x) /\ IsInf(y) THEN (IF x[2] = y[2] THEN x ELSE NaN)
    ELSE IF IsInf(x) THEN x
    ELSE IF IsInf(y) THEN y
    ELSE IF x[3] = y[3] THEN Rat(x[2] + y[2], x[3])
    ELSE Rat(x[2] * y[3] + y[2] * x[3], x[3] * y[3])

Sub(x, y) == Add(x, Neg(y))

Half(x) == IF IsFin(x) THEN Rat(x[2], 2 * x[3]) ELSE x

Fabs(x) == IF IsNaN(x) THEN NaN ELSE <<x[1], (IF x[2] < 0 THEN 0 - x[2] ELSE x[2]), x[3]>>

\* the integer square root of a perfect square
Sqrt(n) == CHOOSE k \in 0..n : k * k = n

\* sqrt(pow(re,2.0)+pow(im,2.0)); the finite inputs of the model are
\* integers whose squares add up to a perfect square
Mag(re, im) ==
    IF IsNaN(re) \/ IsNaN(im) THEN NaN
    ELSE IF IsInf(re) \/ IsInf(im) THEN PInf
    ELSE Fin(Sqrt(re[2] * re[2] + im[2] * im[2]))

\* atan2(y, x) in degrees.  The axes and the diagonals of infinite operands
\* are exact; every other direction is represented by the middle of its
\* open quadrant (45, 135, -45, -135), which keeps every comparison of the
\* angle with 0, 90 and 180.
Atan2Deg(y, x) ==
    IF IsNaN(y) \/ IsNaN(x) THEN NaN
    ELSE IF IsInf(x) /\ ~IsInf(y) THEN
        (IF Sign(x) > 0 THEN Fin(0) ELSE IF Sign(y) < 0 THEN Fin(-180) ELSE Fin(180))
    ELSE IF IsInf(y) /\ ~IsInf(x) THEN Fin(90 * Sign(y))
    ELSE IF Sign(y) > 0 THEN
        (IF Sign(x) > 0 THEN Fin(45) ELSE IF Sign(x) = 0 THEN Fin(90) ELSE Fin(135))
    ELSE IF Sign(y) < 0 THEN
        (IF Sign(x) > 0 THEN Fin(-45) ELSE IF Sign(x) = 0 THEN Fin(-90) ELSE Fin(-135))
    ELSE (IF Sign(x) >= 0 THEN Fin(0) ELSE Fin(180))

\* x / m for an integer m >= 0: x/0 is NaN for x = 0 and an infinity otherwise
DivInt(x, m) ==
    IF IsNaN(x) THEN NaN
    ELSE IF m = 0 THEN (IF Sign(x) = 0 THEN NaN ELSE <<"inf", Sign(x), 1>>)
    ELSE IF IsInf(x) THEN x
    ELSE Rat(x[2], x[3] * m)

Sq(x) ==
    IF IsNaN(x) THEN NaN
    ELSE IF IsInf(x) THEN PInf
    ELSE Rat(x[2] * x[2], x[3] * x[3])

(* --------------------------- pitch_class.cpp --------------------------- *)

\* struct fft_out of a slot no statement has written yet
FftIndet == [real |-> Indet, imag |-> Indet, abs |-> Indet, freq |-> Indet]

\* struct result_pa of the global mode_data before any file (static storage)
ResZero ==
    [index |-> 0, freq |-> Fin(0), amp |-> Fin(0), avg_amp |-> Fin(0),
     pa |-> Fin(0), phase |-> Fin(0), snr |-> Fin(0), fwhm |-> Fin(0)]

\* the test of the maximum search: a larger magnitude, and not the DC slot
IsCandidateOffByOne(fft, i, a_max) == Gt(fft[i].abs, a_max) /\ i # MidSlot + 1

IsCandidate(fft, i, a_max) == Gt(fft[i].abs, a_max) /\ i # MidSlot

\* the scan loop of pitch_phase from slot i on; s = [a_max, index, nan]
RECURSIVE ScanMax(_, _, _)
ScanMax(fft, i, s) ==
    IF i > HI_INDEX THEN s
    ELSE LET take == IsCandidate(fft, i, s.a_max)
         IN  ScanMax(fft, i + 1,
                 [a_max |-> IF take THEN fft[i].abs ELSE s.a_max,
                  index |-> IF take THEN i ELSE s.index,
                  nan   |-> IF ~IsNaN(fft[i].abs) THEN 0 ELSE s.nan])

\* res->pa: atan2(mode, freq) in degrees, less 180 when its magnitude exceeds 90
PitchAngle(m, freq) ==
    LET pa == Atan2Deg(Fin(m), freq)
    IN  IF Gt(Fabs(pa), Fin(90)) THEN Sub(pa, Fin(180)) ELSE pa

\* res->phase: atan2(imag, real) in degrees, divided by the mode
PhaseAngle(imag, real, m) == DivInt(Atan2Deg(imag, real), m)

PitchPhaseShortScan(fft, m, res, errno) ==
    LET s == ScanMax(fft, LO_INDEX + 1, [a_max |-> Fin(-255), index |-> -1, nan |-> 1])
    IN  IF s.nan = 1 THEN [ret |-> PITCH_RET_NAN, res |-> res, errno |-> errno]
        ELSE IF s.index < 0
        THEN [ret |-> 0, res |-> res, errno |-> PITCH_ERR_MAX_AMP]
        ELSE [ret |-> 1,
              res |-> [res EXCEPT !.amp = fft[s.index].abs,
                                  !.freq = fft[s.index].freq,
                                  !.index = s.index,
                                  !.pa = PitchAngle(m, fft[s.index].freq),
                                  !.phase = PhaseAngle(fft[s.index].imag,
                                                       fft[s.index].real, m)],
              errno |-> errno]

\* pitch::pitch_phase; the result is [ret, res, errno]
PitchPhase(fft, m, res, errno) ==
    LET s == ScanMax(fft, LO_INDEX, [a_max |-> Fin(-255), index |-> -1, nan |-> 1])
    IN  IF s.nan = 1 THEN [ret |-> PITCH_RET_NAN, res |-> res, errno |-> errno]
        ELSE IF s.index < 0
        THEN [ret |-> 0, res |-> res, errno |-> PITCH_ERR_MAX_AMP]
        ELSE [ret |-> 1,
              res |-> [res EXCEPT !.amp = fft[s.index].abs,
                                  !.freq = fft[s.index].freq,
                                  !.index = s.index,
                                  !.pa = PitchAngle(m, fft[s.index].freq),
                                  !.phase = PhaseAngle(fft[s.index].imag,
                                                       fft[s.index].real, m)],
              errno |-> errno]

\* the slots snr averages: the window without the DC slot, NaN left out
ValidSlots(fft) == {i \in Window : i # MidSlot /\ ~IsNaN(fft[i].abs)}

\* the sum of f[i] over the slots of S from slot i up, in loop order
RECURSIVE SumFrom(_, _, _)
SumFrom(f, S, i) ==
    IF i > HI_INDEX THEN Fin(0)
    ELSE IF i \in S THEN Add(f[i], SumFrom(f, S, i + 1))
    ELSE SumFrom(f, S, i + 1)

SnrSigmaAsNaN(fft, res, errno) ==
    LET V    == ValidSlots(fft)
        vals == Cardinality(V)
        avg  == SumFrom([i \in Window |-> fft[i].abs], V, LO_INDEX)
        L    == DivInt(avg, vals)
        avg2 == SumFrom([i \in Window |-> Sq(Sub(fft[i].abs, L))], V, LO_INDEX)
        num  == Sub(res.amp, L)
        snr  == IF IsNaN(avg2) \/ IsNaN(num) THEN NaN
                ELSE IF IsInf(num) THEN num
                ELSE <<"quo", num[2], avg2[2]>>
    IN  IF vals = 0
        THEN [ret |-> PITCH_RET_ERR, res |-> res, errno |-> PITCH_ERR_ALLNANS]
        ELSE IF IsFin(avg2) /\ avg2[2] = 0
        THEN [ret |-> PITCH_RET_NAN, res |-> [res EXCEPT !.avg_amp = L, !.snr = NaN],
              errno |-> errno]
        ELSE [ret |-> IF IsNaN(snr) THEN PITCH_RET_NAN ELSE PITCH_RET_OK,
              res |-> [res EXCEPT !.avg_amp = L, !.snr = snr],
              errno |-> errno]

\* pitch::snr; the result is [ret, res, errno].  sigma = sqrt(avg2/vals) is
\* at most 1e-10 exactly when the sum of squares avg2 is the number zero.
Snr(fft, res, errno) ==
    LET V    == ValidSlots(fft)
        vals == Cardinality(V)
        avg  == SumFrom([i \in Window |-> fft[i].abs], V, LO_INDEX)
        L    == DivInt(avg, vals)
        avg2 == SumFrom([i \in Window |-> Sq(Sub(fft[i].abs, L))], V, LO_INDEX)
        num  == Sub(res.amp, L)
        snr  == IF IsNaN(avg2) \/ IsNaN(num) THEN NaN
                ELSE IF IsInf(num) THEN num
                ELSE <<"quo", num[2], avg2[2]>>
    IN  IF vals = 0
        THEN [ret |-> PITCH_RET_ERR, res |-> res, errno |-> PITCH_ERR_ALLNANS]
        ELSE IF IsFin(avg2) /\ avg2[2] = 0
        THEN [ret |-> PITCH_RET_ERR, res |-> [res EXCEPT !.avg_amp = L],
              errno |-> PITCH_ERR_SIGMA]
        ELSE [ret |-> IF IsNaN(snr) THEN PITCH_RET_NAN ELSE PITCH_RET_OK,
              res |-> [res EXCEPT !.avg_amp = L, !.snr = snr],
              errno |-> errno]

\* the upward scan of fwhm from slot i: hi, or 0 when no slot is below limit
RECURSIVE ScanHi(_, _, _)
ScanHi(fft, i, limit) ==
    IF i > HI_INDEX THEN 0
    ELSE IF i # MidSlot /\ Lt(fft[i].abs, limit) THEN i - 1
    ELSE ScanHi(fft, i + 1, limit)

\* the downward scan of fwhm from slot i: lo, or 0
RECURSIVE ScanLo(_, _, _)
ScanLo(fft, i, limit) ==
    IF i < LO_INDEX THEN 0
    ELSE IF i # MidSlot /\ Lt(fft[i].abs, limit) THEN i + 1
    ELSE ScanLo(fft, i - 1, limit)

FwhmAfterError(fft, res, errno) ==
    IF errno # 0 \/ res.index < LO_INDEX \/ res.index > HI_INDEX
    THEN [ret |-> PITCH_RET_ERR, res |-> res, errno |-> PITCH_ERR_INVALID]
    ELSE LET limit == Sub(res.amp, Half(Sub(res.amp, res.avg_amp)))
             hi    == ScanHi(fft, res.index + 1, limit)
             lo    == ScanLo(fft, res.index - 1, limit)
         IN  IF hi = 0 \/ lo = 0
             THEN [ret |-> PITCH_RET_ERR, res |-> res, errno |-> PITCH_ERR_SCANFWHM]
             ELSE [ret |-> PITCH_RET_OK,
                   res |-> [res EXCEPT !.fwhm = Fin(hi - lo + 1)],
                   errno |-> errno]

FwhmOneCrossing(fft, res, errno) ==
    IF res.index < LO_INDEX \/ res.index > HI_INDEX
    THEN [ret |-> PITCH_RET_ERR, res |-> res, errno |-> PITCH_ERR_INVALID]
    ELSE LET limit == Sub(res.amp, Half(Sub(res.amp, res.avg_amp)))
             hi    == ScanHi(fft, res.index + 1, limit)
             lo    == ScanLo(fft, res.index - 1, limit)
         IN  IF hi = 0 /\ lo = 0
             THEN [ret |-> PITCH_RET_ERR, res |-> res, errno |-> PITCH_ERR_SCANFWHM]
             ELSE [ret |-> PITCH_RET_OK,
                   res |-> [res EXCEPT !.fwhm = Fin(hi - lo + 1)],
                   errno |-> errno]

FwhmExclusive(fft, res, errno) ==
    IF res.index < LO_INDEX \/ res.index > HI_INDEX
    THEN [ret |-> PITCH_RET_ERR, res |-> res, errno |-> PITCH_ERR_INVALID]
    ELSE LET limit == Sub(res.amp, Half(Sub(res.amp, res.avg_amp)))
             hi    == ScanHi(fft, res.index + 1, limit)
             lo    == ScanLo(fft, res.index - 1, limit)
         IN  IF hi = 0 \/ lo = 0
             THEN [ret |-> PITCH_RET_ERR, res |-> res, errno |-> PITCH_ERR_SCANFWHM]
             ELSE [ret |-> PITCH_RET_OK,
                   res |-> [res EXCEPT !.fwhm = Fin(hi - lo - 1)],
                   errno |-> errno]

\* pitch::fwhm; the result is [ret, res, errno]
Fwhm(fft, res, errno) ==
    IF res.index < LO_INDEX \/ res.index > HI_INDEX
    THEN [ret |-> PITCH_RET_ERR, res |-> res, errno |-> PITCH_ERR_INVALID]
    ELSE LET limit == Sub(res.amp, Half(Sub(res.amp, res.avg_amp)))
             hi    == ScanHi(fft, res.index + 1, limit)
             lo    == ScanLo(fft, res.index - 1, limit)
         IN  IF hi = 0 \/ lo = 0
             THEN [ret |-> PITCH_RET_ERR, res |-> res, errno |-> PITCH_ERR_SCANFWHM]
             ELSE [ret |-> PITCH_RET_OK,
                   res |-> [res EXCEPT !.fwhm = Fin(hi - lo + 1)],
                   errno |-> errno]

(* ------------------------------ p2dfft.cpp ----------------------------- *)

VARIABLES
    items,        \* the work list: <<[radius, readable, image], ...>>
    it,           \* index of the file in process (from 1)
    num,          \* number of threads
    high_pass,    \* flag -h
    fixed,        \* width of -f, 0 without
    main_pc,      \* "file", "loop", "output" or "done"
    fft_sum,      \* fft_sum[mode][k].abs
    mode_data,    \* mode_data[mode][radius]
    todo,         \* radii of the parallel loop no thread has taken yet
    pc,           \* per thread: "idle", "remap", "label", "store", "extract", "mode_end"
    radius,       \* per thread: the loop variable
    mode,         \* per thread
    jm,           \* per thread
    sum_ptr,      \* per thread
    acc,          \* per thread: the value fft_sum[mode][sum_ptr].abs += loads
    out_data,     \* out_data[current]
    fft_data,     \* fft_data[current]
    crit,         \* the thread inside an omp critical section, 0 when none
    pitch_errno,
    calls,        \* per thread: the extractor calls of its last (mode, radius)
    cellw,        \* per cell: the <<thread, radius>> iterations that wrote it (this file)
    added,        \* per <<mode, radius, jm>>: additions to fft_sum (this file)
    shared        \* <<location, thread, "r" or "w">>: unsynchronized accesses (this file)

\* the polar sampler of one iteration
VARIABLES
    zero,          \* flag -z
    mask,          \* flag -m 0
    mask_line,     \* flag -m 1
    reverse,       \* flag -r
    mat,           \* the pixel a sample maps to: mat[count_theta][level of lnr]
    ctr_val,       \* the value at the centre of the image
    log_bar,       \* in units of radstep
    log_lo,        \* local of the loop body, in units of radstep
    log_hi,        \* local of the loop body, in units of radstep
    smp_pc,        \* "off", "begin", "theta", "rad" or "done"
    count_theta,
    count_radians,
    counter,
    in_data,       \* in_data[current]
    norma,
    rule           \* per entry of in_data: the rules that wrote it, in order

\* the per-radius output files of one (mode, radius)
VARIABLES
    wr_fail,       \* the files fopen cannot open: a subset of {"rip", "dat"}
    fp_out1,       \* per thread, the .rip file: "indet", "open", "null" or "closed"
    fp_out2        \* per thread, the .dat file

file_vars == <<wr_fail, fp_out1, fp_out2>>

smp_vars ==
    <<zero, mask, mask_line, reverse, mat, ctr_val, log_bar, log_lo, log_hi,
      smp_pc, count_theta, count_radians, counter, in_data, norma, rule>>

vars ==
    <<items, it, num, high_pass, fixed, main_pc, fft_sum, mode_data, todo, pc,
      radius, mode, jm, sum_ptr, acc, out_data, fft_data, crit, pitch_errno,
      calls, cellw, added, shared, smp_vars, file_vars>>

Threads == 1..num

\* lim, with the frequency bounds in units of STEP_P
LimWithoutEnd == FREQ_END - FREQ_START

Lim == (FREQ_END - FREQ_START) + 1

Radii == 0..MaxRadius

\* indices of the rows 0..M_FIN of the transform output
OutIndex == 0..((M_FIN + 1) * DIM_RAD - 1)

\* freq_save of a slot, in units of STEP_P
FreqOf(slot) == (slot - 1) - (DIM_RAD \div 2)

InRange(slot) == FreqOf(slot) >= FREQ_START /\ FreqOf(slot) <= FREQ_END

FirstInRange == CHOOSE s \in Slots : InRange(s) /\ \A t \in Slots : InRange(t) => s <= t

\* one remapped bin: real part, imaginary part times -1.0, magnitude
StoreBinSameSign(fd, slot, c) ==
    [fd EXCEPT ![slot] = [@ EXCEPT !.real = c[1], !.imag = c[2],
                                   !.abs = Mag(c[1], c[2])]]

StoreBin(fd, slot, c) ==
    [fd EXCEPT ![slot] = [@ EXCEPT !.real = c[1], !.imag = Neg(c[2]),
                                   !.abs = Mag(c[1], c[2])]]

\* for (cont_p = first; cont_p <= last; cont_p++) { store; ++counter; },
\* counter starting at cnt
RECURSIVE RemapLoop(_, _, _, _, _)
RemapLoop(fd, od, cont_p, last, cnt) ==
    IF cont_p > last THEN fd
    ELSE RemapLoop(StoreBin(fd, cont_p + (DIM_RAD \div 2) + 1, od[cnt]),
                   od, cont_p + 1, last, cnt + 1)

\* the remap of one mode's slice of out_data into fft_data
RemapSliceEndOnly(fd, od, m) ==
    LET c0 == m * DIM_RAD
        a  == RemapLoop(fd, od, 0, (DIM_RAD \div 2) - 1, c0)
        c1 == c0 + (DIM_RAD \div 2)
        b  == StoreBin(a, DIM_RAD + 1, od[c1])
    IN  RemapLoop(b, od, 1 - (DIM_RAD \div 2), -1, c1 + 1)

RemapSlice(fd, od, m) ==
    LET c0 == m * DIM_RAD
        a  == RemapLoop(fd, od, 0, (DIM_RAD \div 2) - 1, c0)
        c1 == c0 + (DIM_RAD \div 2)
        b  == StoreBin(a, DIM_RAD + 1, od[c1])
        c  == [b EXCEPT ![1].abs = Mag(od[c1][1], od[c1][2])]
    IN  RemapLoop(c, od, 1 - (DIM_RAD \div 2), -1, c1 + 1)

\* the per-file reset of the summed spectrum
ResetSumKeep(fs) == IF it = 1 THEN [m \in Modes |-> [k \in 0..(Lim - 1) |-> Fin(0)]] ELSE fs

ResetSum(fs) == [m \in Modes |-> [k \in 0..(Lim - 1) |-> Fin(0)]]

\* the skip of a radius under -f
SkipRadiusInnerOnly(r, R) == fixed # 0 /\ r <= fixed \div 2

SkipRadius(r, R) == fixed # 0 /\ (r <= fixed \div 2 \/ r >= R - (fixed \div 2))

\* the test that guards the addition to fft_sum
AccumulableAlways(v) == TRUE

Accumulable(v) == ~IsNaN(v)

\* entry to "#pragma omp critical": no thread is inside one
CriticalFreeNoLock == TRUE

CriticalFree == crit = 0

\* the high-pass test of slot s for mode m
HighPassedInclusive(s, m) == high_pass /\ FreqOf(s) <= m /\ FreqOf(s) >= 0 - m

HighPassed(s, m) == high_pass /\ FreqOf(s) < m /\ FreqOf(s) > 0 - m

\* the second index of the result cell an iteration writes
CellRadiusByThread(w) == w

CellRadius(w) == radius[w]

\* the driver's test of the status of pitch_phase
PitchFailedErrOnly(status) == status = PITCH_RET_ERR

PitchFailed(status) == status = PITCH_RET_ERR \/ status = PITCH_RET_NAN

AllNaNRes ==
    [index |-> 0, freq |-> NaN, amp |-> NaN, avg_amp |-> NaN, pa |-> NaN,
     phase |-> NaN, snr |-> NaN, fwhm |-> NaN]

\* what the driver stores after snr returned Error
SnrFailedResAll(res) == AllNaNRes

SnrFailedRes(res) == [res EXCEPT !.avg_amp = NaN, !.snr = NaN, !.fwhm = NaN]

\* the extractor driver for one (mode, radius): [res, errno, calls]
DriveExtract(fft, m, res, errno) ==
    LET p == PitchPhase(fft, m, res, errno)
    IN  IF PitchFailed(p.ret)
        THEN [res |-> AllNaNRes, errno |-> p.errno,
              calls |-> << <<"pitch_phase", p.ret>> >>]
        ELSE LET s == Snr(fft, p.res, p.errno)
             IN  IF s.ret = PITCH_RET_ERR
                 THEN [res |-> SnrFailedRes(s.res), errno |-> s.errno,
                       calls |-> << <<"pitch_phase", p.ret>>, <<"snr", s.ret>> >>]
                 ELSE LET f == Fwhm(fft, s.res, s.errno)
                      IN  [res |-> IF f.ret = PITCH_RET_ERR
                                   THEN [f.res EXCEPT !.fwhm = NaN] ELSE f.res,
                           errno |-> f.errno,
                           calls |-> << <<"pitch_phase", p.ret>>, <<"snr", s.ret>>,
                                        <<"fwhm", f.ret>> >>]

\* values a read of never-assigned storage may yield
IndetVals == {NaN, Fin(0)}

\* fft_data with the never-assigned frequency labels read as v
Resolve(fd, v) ==
    [s \in Slots |-> [fd[s] EXCEPT !.freq = IF @ = Indet THEN v ELSE @]]

(* ------------------------------- inputs -------------------------------- *)

\* transform outputs of an annulus with a non-zero normalization: finite
CplxFinite == {<<Fin(0), Fin(0)>>, <<Fin(0), Fin(1)>>, <<Fin(3), Fin(-4)>>}

\* transform outputs divided by a zero normalization: 0/0 and x/0
CplxNonFinite == {<<NaN, NaN>>, <<PInf, NInf>>}

\* bin 0 of row 0 is the sum of the samples, which is the normalization
\* itself: normalized it is 1, or 0/0 when the normalization is zero
WithDC(arr, dc) == [arr EXCEPT ![0] = dc]

\* normalized transform outputs over vals: row 0 is any slice, and row m is
\* that slice rotated by m bins (so that the rows differ and each row takes
\* every slice)
SliceArrays(vals, dc) ==
    {WithDC([i \in OutIndex |-> sl[((i % DIM_RAD) + (i \div DIM_RAD)) % DIM_RAD]], dc) :
        sl \in [0..(DIM_RAD - 1) -> vals]}

\* the normalized transform output of a zero image: 0/0 everywhere
ArrNaN == [i \in OutIndex |-> <<NaN, NaN>>]

\* a finite normalized transform output that varies with the bin and with k
ArrFinite(k) ==
    WithDC([i \in OutIndex |->
               IF (i + k) % 3 = 0 THEN <<Fin(3), Fin(-4)>>
               ELSE IF (i + k) % 3 = 1 THEN <<Fin(0), Fin(1)>>
               ELSE <<Fin(0), Fin(0)>>],
           <<Fin(1), Fin(0)>>)

\* two images: the normalized transform output of each annulus
ImageA == [r \in 1..MaxRadius |-> ArrFinite(r)]

ImageB == [r \in 1..MaxRadius |-> IF r = 1 THEN ArrNaN ELSE ArrFinite(r + 1)]

(* ---------------------------- polar sampler ---------------------------- *)

\* x >= y of C for numbers that are not NaN
Ge(x, y) == ~Lt(x, y)

\* log(r) in units of radstep, rounded to the grid of lnr: log(1) = 0 and
\* the logarithm grows with r
LogOf(r) == r - 1

\* the entries of in_data[current]: DIM_RAD*DIM_THT+1 of them
InIndex == 0..(DIM_RAD * DIM_THT)

\* the values count_theta takes inside the loop
ThetaCounts == 2..(DIM_THT + 1)

\* the levels lnr takes, in units of radstep
Levels == 0..(DIM_RAD - 1)

\* the last count_theta below the upper zero-padding band: the literal
\* 1021 = DIM_THT - 3
ZeroBandHi == DIM_THT - 3

\* log_rad of the iteration of thread 1
LogRad ==
    IF reverse THEN LogOf(items[it].radius - radius[1] + 1) ELSE LogOf(radius[1])

LogItrad == LogOf(items[it].radius)

\* the branch of the loop body that writes the sample at count_theta ct and
\* level lnr
RuleOfMaskLineFirst(ct, lnr) ==
    IF mask_line /\ lnr <= log_bar THEN "mask_line"
    ELSE IF zero /\ (ct < 4 \/ ct > ZeroBandHi) THEN "zero"
    ELSE IF reverse /\ (lnr > LogRad \/ lnr > LogItrad) THEN "reverse"
    ELSE IF fixed # 0 /\ (lnr > log_hi \/ lnr < log_lo) THEN "fixed"
    ELSE IF ~reverse /\ fixed = 0 /\ (lnr > LogItrad \/ lnr < LogRad) THEN "standard"
    ELSE IF mask /\ Ge(mat[ct][lnr], ctr_val) THEN "mask"
    ELSE "copy"

RuleOf(ct, lnr) ==
    IF zero /\ (ct < 4 \/ ct > ZeroBandHi) THEN "zero"
    ELSE IF mask_line /\ lnr <= log_bar THEN "mask_line"
    ELSE IF reverse /\ (lnr > LogRad \/ lnr > LogItrad) THEN "reverse"
    ELSE IF fixed # 0 /\ (lnr > log_hi \/ lnr < log_lo) THEN "fixed"
    ELSE IF ~reverse /\ fixed = 0 /\ (lnr > LogItrad \/ lnr < LogRad) THEN "standard"
    ELSE IF mask /\ Ge(mat[ct][lnr], ctr_val) THEN "mask"
    ELSE "copy"

\* what the addition to norma adds for the sample v
NormaTermFabs(v) == Fabs(v)

NormaTerm(v) == v

\* values an uninitialized threshold may hold: below every level, between
\* two levels, above every level
IndetLevels == {-1, 2, DIM_RAD}

\* two images as the sampler sees them: the pixel of (count_theta, level)
MatA == [ct \in ThetaCounts |-> [l \in Levels |-> Fin(((ct + l) % 3) - 1)]]

MatB == [ct \in ThetaCounts |-> [l \in Levels |-> Fin((ct * (l + 1)) % 3)]]

pipe_frame ==
    <<items, it, num, high_pass, fixed, main_pc, fft_sum, mode_data, todo, pc,
      radius, mode, jm, sum_ptr, acc, fft_data, crit, pitch_errno, calls, cellw,
      added, shared, wr_fail, fp_out1, fp_out2>>

smp_inputs == <<zero, mask, mask_line, reverse, mat, ctr_val, log_bar, log_lo, log_hi>>

\* the sampler is not running (the sampled annulus is given by its transform)
SamplerOff ==
    /\ zero = FALSE /\ mask = FALSE /\ mask_line = FALSE /\ reverse = FALSE
    /\ mat = MatA
    /\ ctr_val = Fin(1)
    /\ log_bar = 0 /\ log_lo = 0 /\ log_hi = 0
    /\ smp_pc = "off"
    /\ count_theta = 0 /\ count_radians = 0 /\ counter = 0
    /\ in_data = [i \in InIndex |-> <<Indet, Indet>>]
    /\ norma = Indet
    /\ rule = [i \in InIndex |-> << >>]

\* thread 1 at the top of the body of the parallel loop for a radius that is
\* not skipped, under any options (-r and -f exclude each other); outer radii
\* up to MaxRadius + 1, the smallest that leaves an annulus under -f 2
InitSampler ==
    /\ num = 1
    /\ high_pass = FALSE
    /\ zero \in BOOLEAN /\ mask \in BOOLEAN /\ mask_line \in BOOLEAN
    /\ log_bar \in (IF mask_line THEN {0, 2} ELSE {0})
    /\ \/ fixed = 0 /\ reverse \in BOOLEAN /\ log_lo = 0 /\ log_hi = 0
       \/ fixed = 2 /\ reverse = FALSE /\ log_lo \in IndetLevels /\ log_hi \in IndetLevels
    /\ mat \in {MatA, MatB}
    /\ ctr_val \in {Fin(1), Fin(2)}
    /\ \E R \in 2..(MaxRadius + 1) : \E r \in 1..(R - 1) :
          /\ ~SkipRadius(r, R)
          /\ items = << [radius |-> R, readable |-> TRUE, image |-> ImageA] >>
          /\ radius = [w \in Threads |-> r]
          /\ todo = {}
    /\ it = 1
    /\ main_pc = "loop"
    /\ pc = [w \in Threads |-> "sample"]
    /\ fft_sum = [m \in Modes |-> [k \in 0..(Lim - 1) |-> Fin(0)]]
    /\ mode_data = [m \in Modes |-> [r \in Radii |-> ResZero]]
    /\ mode = [w \in Threads |-> 0]
    /\ jm = [w \in Threads |-> 0]
    /\ sum_ptr = [w \in Threads |-> 0]
    /\ acc = [w \in Threads |-> Indet]
    /\ out_data = [w \in Threads |-> [i \in OutIndex |-> <<Indet, Indet>>]]
    /\ fft_data = [w \in Threads |-> [s \in Slots |-> FftIndet]]
    /\ crit = 0
    /\ pitch_errno = 0
    /\ calls = [w \in Threads |-> << >>]
    /\ cellw = [m \in Modes |-> [r \in Radii |-> {}]]
    /\ added = [m \in Modes |-> [r \in Radii |-> [s \in Slots |-> 0]]]
    /\ shared = {}
    /\ fp_out1 = [w \in Threads |-> "indet"]
    /\ fp_out2 = [w \in Threads |-> "indet"]
    /\ wr_fail = {}
    /\ smp_pc = "begin"
    /\ count_theta = 0 /\ count_radians = 0 /\ counter = 0
    /\ in_data = [i \in InIndex |-> <<Indet, Indet>>]
    /\ norma = Indet
    /\ rule = [i \in InIndex |-> << >>]

\* the initializers of the locals and the loop that zeroes in_data[current]
\* and out_data[current]
SamplerBegin ==
    /\ smp_pc = "begin"
    /\ counter' = 0
    /\ count_theta' = 1
    /\ norma' = Fin(0)
    /\ in_data' = [i \in InIndex |-> <<Fin(0), Fin(0)>>]
    /\ out_data' = [out_data EXCEPT ![1] = [i \in OutIndex |-> <<Fin(0), Fin(0)>>]]
    /\ smp_pc' = "theta"
    /\ UNCHANGED <<pipe_frame, smp_inputs, count_radians, rule>>

\* the test of the theta loop passes: count_theta++, count_radians=1
NextTheta ==
    /\ smp_pc = "theta"
    /\ count_theta <= DIM_THT
    /\ count_theta' = count_theta + 1
    /\ count_radians' = 1
    /\ smp_pc' = "rad"
    /\ UNCHANGED <<pipe_frame, out_data, smp_inputs, counter, in_data, norma, rule>>

\* one pass of the body of the lnr loop: one sample
Sample ==
    /\ smp_pc = "rad"
    /\ count_radians <= DIM_RAD
    /\ LET lnr == count_radians - 1
           r   == RuleOf(count_theta, lnr)
           v   == mat[count_theta][lnr]
       IN  /\ in_data' = [in_data EXCEPT ![counter] =
                              IF r = "copy" THEN <<v, Fin(0)>> ELSE <<Fin(0), Fin(0)>>]
           /\ norma' = IF r = "copy" THEN Add(norma, NormaTerm(v)) ELSE norma
           /\ rule' = [rule EXCEPT ![counter] = Append(@, r)]
    /\ counter' = counter + 1
    /\ count_radians' = count_radians + 1
    /\ UNCHANGED <<pipe_frame, out_data, smp_inputs, smp_pc, count_theta>>

\* the test of the lnr loop fails
EndTheta ==
    /\ smp_pc = "rad"
    /\ count_radians > DIM_RAD
    /\ smp_pc' = "theta"
    /\ UNCHANGED <<pipe_frame, out_data, smp_inputs, count_theta, count_radians,
                   counter, in_data, norma, rule>>

\* the test of the theta loop fails: the annulus is sampled
SamplerEnd ==
    /\ smp_pc = "theta"
    /\ count_theta > DIM_THT
    /\ smp_pc' = "done"
    /\ UNCHANGED <<pipe_frame, out_data, smp_inputs, count_theta, count_radians,
                   counter, in_data, norma, rule>>

NextSampler ==
    \/ SamplerBegin
    \/ NextTheta
    \/ Sample
    \/ EndTheta
    \/ SamplerEnd

SpecSampler == InitSampler /\ [][NextSampler]_vars

InitRest ==
    /\ it = 1
    /\ main_pc = "file"
    /\ fft_sum = [m \in Modes |-> [k \in 0..(Lim - 1) |-> Indet]]
    /\ mode_data = [m \in Modes |-> [r \in Radii |-> ResZero]]
    /\ todo = {}
    /\ pc = [w \in Threads |-> "idle"]
    /\ radius = [w \in Threads |-> 0]
    /\ mode = [w \in Threads |-> 0]
    /\ jm = [w \in Threads |-> 0]
    /\ sum_ptr = [w \in Threads |-> 0]
    /\ acc = [w \in Threads |-> Indet]
    /\ out_data = [w \in Threads |-> [i \in OutIndex |-> <<Indet, Indet>>]]
    /\ fft_data = [w \in Threads |-> [s \in Slots |-> FftIndet]]
    /\ crit = 0
    /\ pitch_errno = 0
    /\ calls = [w \in Threads |-> << >>]
    /\ cellw = [m \in Modes |-> [r \in Radii |-> {}]]
    /\ added = [m \in Modes |-> [r \in Radii |-> [s \in Slots |-> 0]]]
    /\ shared = {}
    /\ fp_out1 = [w \in Threads |-> "indet"]
    /\ fp_out2 = [w \in Threads |-> "indet"]

\* one thread, one file with one annulus whose transform output is any
\* slice; or a file that cannot be read; or a radius skipped under -f
Init ==
    /\ num = 1
    /\ \/ /\ fixed = 0
          /\ high_pass \in BOOLEAN
          /\ \E img \in SliceArrays(CplxFinite, <<Fin(1), Fin(0)>>)
                       \cup SliceArrays(CplxNonFinite, <<NaN, NaN>>) :
                items = << [radius |-> 2, readable |-> TRUE, image |-> (1 :> img)] >>
       \/ /\ fixed \in {0, 2}
          /\ high_pass = FALSE
          /\ \E rd \in BOOLEAN, R \in {2, MaxRadius + 1} :
                items = << [radius |-> R, readable |-> rd, image |-> ImageB] >>
    /\ InitRest
    /\ SamplerOff
    /\ wr_fail = {}

\* up to MaxThreads threads and MaxFiles files of the two images
InitPar ==
    /\ num \in 1..MaxThreads
    /\ fixed \in {0, 2}
    /\ high_pass = FALSE
    /\ \E n \in 1..MaxFiles :
          items \in [1..n -> [radius : 2..MaxRadius, readable : BOOLEAN,
                              image : {ImageA, ImageB}]]
    /\ InitRest
    /\ SamplerOff
    /\ wr_fail = {}

(* ------------------------------- actions ------------------------------- *)

thread_vars == <<pc, radius, mode, jm, sum_ptr, acc, out_data, fft_data>>

hist_vars == <<calls, cellw, added, shared>>

input_vars == <<items, num, high_pass, fixed>>

\* fopen(outfile, "w") of the file of this kind: NULL when it cannot be opened
Fopen(kind) == IF kind \in wr_fail THEN "null" ELSE "open"

\* fclose of an open file; of a NULL pointer when the call returns
Fclose(fp) == IF fp = "open" THEN "closed" ELSE fp

\* the top of the file loop for a file that is read: reset, read, start the loop
StartFile ==
    /\ main_pc = "file"
    /\ it <= Len(items)
    /\ items[it].readable
    /\ fft_sum' = ResetSum(fft_sum)
    /\ todo' = 1..(items[it].radius - 1)
    /\ main_pc' = "loop"
    /\ cellw' = [m \in Modes |-> [r \in Radii |-> {}]]
    /\ added' = [m \in Modes |-> [r \in Radii |-> [s \in Slots |-> 0]]]
    /\ shared' = {}
    /\ UNCHANGED <<file_vars, smp_vars, input_vars, it, mode_data, thread_vars, crit, pitch_errno, calls>>

\* the top of the file loop for a file that cannot be read: reset, continue
SkipFile ==
    /\ main_pc = "file"
    /\ it <= Len(items)
    /\ ~items[it].readable
    /\ fft_sum' = ResetSum(fft_sum)
    /\ it' = it + 1
    /\ UNCHANGED <<file_vars, smp_vars, input_vars, main_pc, mode_data, todo, thread_vars, crit,
                   pitch_errno, hist_vars>>

\* a thread takes a radius that -f skips: continue
SkipIteration(w) ==
    /\ main_pc = "loop"
    /\ pc[w] = "idle"
    /\ \E r \in todo :
          /\ SkipRadius(r, items[it].radius)
          /\ todo' = todo \ {r}
          /\ radius' = [radius EXCEPT ![w] = r]
    /\ UNCHANGED <<file_vars, smp_vars, input_vars, it, main_pc, fft_sum, mode_data, pc, mode, jm,
                   sum_ptr, acc, out_data, fft_data, crit, pitch_errno, hist_vars>>

\* a thread takes a radius: sampling, transform and normalization leave the
\* annulus's normalized transform output in out_data[current]
BeginIteration(w) ==
    /\ main_pc = "loop"
    /\ pc[w] = "idle"
    /\ \E r \in todo :
          /\ ~SkipRadius(r, items[it].radius)
          /\ todo' = todo \ {r}
          /\ radius' = [radius EXCEPT ![w] = r]
          /\ out_data' = [out_data EXCEPT ![w] = items[it].image[r]]
    /\ mode' = [mode EXCEPT ![w] = M_INI]
    /\ pc' = [pc EXCEPT ![w] = "remap"]
    /\ UNCHANGED <<file_vars, smp_vars, input_vars, it, main_pc, fft_sum, mode_data, jm, sum_ptr, acc,
                   fft_data, crit, pitch_errno, hist_vars>>

\* the head of the mode loop: base, the remap, sum_ptr=0, dindex=2 and the
\* iterations of the jm loop below the frequency range
Remap(w) ==
    /\ pc[w] = "remap"
    /\ fft_data' = [fft_data EXCEPT ![w] = RemapSlice(fft_data[w], out_data[w], mode[w])]
    /\ sum_ptr' = [sum_ptr EXCEPT ![w] = 0]
    /\ jm' = [jm EXCEPT ![w] = FirstInRange]
    /\ pc' = [pc EXCEPT ![w] = "label"]
    /\ shared' = shared \cup {<<"base", w, "w">>, <<"base", w, "r">>, <<"dindex", w, "w">>}
    /\ fp_out1' = [fp_out1 EXCEPT ![w] = Fopen("rip")]
    /\ fp_out2' = [fp_out2 EXCEPT ![w] = Fopen("dat")]
    /\ UNCHANGED <<wr_fail, smp_vars, input_vars, it, main_pc, fft_sum, mode_data, todo, radius, mode,
                   acc, out_data, crit, pitch_errno, calls, cellw, added>>

\* the rest of the body of the jm loop for the in-range slot jm[w] of fd, and
\* the loop's advance (the iterations above the range do nothing)
LabelRest(w, fd) ==
    LET s  == jm[w]
        f1 == [fd EXCEPT ![s].freq = Fin(FreqOf(s))]
        f2 == IF HighPassed(s, mode[w])
              THEN [f1 EXCEPT ![s].abs = Fin(0), ![s].real = Fin(0), ![s].imag = Fin(0)]
              ELSE f1
    IN  /\ fft_data' = [fft_data EXCEPT ![w] = f2]
        /\ sum_ptr' = [sum_ptr EXCEPT ![w] = @ + 1]
        /\ shared' = shared \cup {<<"dindex", w, "r">>, <<"dindex", w, "w">>}
        /\ IF s + 1 \in Slots /\ InRange(s + 1)
           THEN /\ jm' = [jm EXCEPT ![w] = s + 1]
                /\ pc' = [pc EXCEPT ![w] = "label"]
                /\ UNCHANGED <<fp_out1, fp_out2>>
           ELSE /\ jm' = [jm EXCEPT ![w] = DIM_RAD + 2]
                /\ pc' = [pc EXCEPT ![w] = "extract"]
                /\ fp_out1' = [fp_out1 EXCEPT ![w] = Fclose(@)]
                /\ fp_out2' = [fp_out2 EXCEPT ![w] = Fclose(@)]

\* an in-range slot whose magnitude is NaN: nothing is added
LabelNaN(w) ==
    /\ pc[w] = "label"
    /\ ~Accumulable(fft_data[w][jm[w]].abs)
    /\ LabelRest(w, fft_data[w])
    /\ UNCHANGED <<wr_fail, smp_vars, input_vars, it, main_pc, fft_sum, mode_data, todo, radius, mode,
                   acc, out_data, crit, pitch_errno, calls, cellw, added>>

\* entry to the critical section and the load of fft_sum[mode][sum_ptr].abs
AccumLoad(w) ==
    /\ pc[w] = "label"
    /\ Accumulable(fft_data[w][jm[w]].abs)
    /\ CriticalFree
    /\ crit' = w
    /\ acc' = [acc EXCEPT ![w] = fft_sum[mode[w]][sum_ptr[w]]]
    /\ pc' = [pc EXCEPT ![w] = "store"]
    /\ UNCHANGED <<file_vars, smp_vars, input_vars, it, main_pc, fft_sum, mode_data, todo, radius, mode,
                   jm, sum_ptr, out_data, fft_data, pitch_errno, hist_vars>>

AccumStoreAfterHighPass(w) ==
    /\ pc[w] = "store"
    /\ fft_sum' = [fft_sum EXCEPT ![mode[w]][sum_ptr[w]] =
                       Add(acc[w], IF HighPassed(jm[w], mode[w]) THEN Fin(0)
                                    ELSE fft_data[w][jm[w]].abs)]
    /\ crit' = IF crit = w THEN 0 ELSE crit
    /\ added' = [added EXCEPT ![mode[w]][radius[w]][jm[w]] = @ + 1]
    /\ LabelRest(w, fft_data[w])
    /\ UNCHANGED <<wr_fail, smp_vars, input_vars, it, main_pc, mode_data, todo, radius, mode, acc,
                   out_data, pitch_errno, calls, cellw>>

\* the store of the sum, the exit from the critical section and the rest of
\* the loop body
AccumStore(w) ==
    /\ pc[w] = "store"
    /\ fft_sum' = [fft_sum EXCEPT ![mode[w]][sum_ptr[w]] =
                       Add(acc[w], fft_data[w][jm[w]].abs)]
    /\ crit' = IF crit = w THEN 0 ELSE crit
    /\ added' = [added EXCEPT ![mode[w]][radius[w]][jm[w]] = @ + 1]
    /\ LabelRest(w, fft_data[w])
    /\ UNCHANGED <<wr_fail, smp_vars, input_vars, it, main_pc, mode_data, todo, radius, mode, acc,
                   out_data, pitch_errno, calls, cellw>>

\* pitch_phase, snr and fwhm for this (mode, radius) and the driver's stores
Extract(w) ==
    /\ pc[w] = "extract"
    /\ \E v \in IndetVals :
          LET d == DriveExtract(Resolve(fft_data[w], v), mode[w],
                                mode_data[mode[w]][CellRadius(w)], -1)
          IN  /\ mode_data' = [mode_data EXCEPT ![mode[w]][CellRadius(w)] = d.res]
              /\ pitch_errno' = IF d.errno = -1 THEN pitch_errno ELSE d.errno
              /\ calls' = [calls EXCEPT ![w] = d.calls]
              /\ shared' = IF d.errno = -1 THEN shared
                           ELSE shared \cup {<<"pitch_errno", w, "w">>}
    /\ cellw' = [cellw EXCEPT ![mode[w]][CellRadius(w)] = @ \cup {<<w, radius[w]>>}]
    /\ pc' = [pc EXCEPT ![w] = "mode_end"]
    /\ UNCHANGED <<file_vars, smp_vars, input_vars, it, main_pc, fft_sum, todo, radius, mode, jm,
                   sum_ptr, acc, out_data, fft_data, crit, added>>

\* mode++ and the test of the mode loop; after the last mode the iteration ends
NextMode(w) ==
    /\ pc[w] = "mode_end"
    /\ IF mode[w] < M_FIN
       THEN /\ mode' = [mode EXCEPT ![w] = @ + 1]
            /\ pc' = [pc EXCEPT ![w] = "remap"]
       ELSE /\ mode' = [mode EXCEPT ![w] = @ + 1]
            /\ pc' = [pc EXCEPT ![w] = "idle"]
    /\ UNCHANGED <<file_vars, smp_vars, input_vars, it, main_pc, fft_sum, mode_data, todo, radius, jm,
                   sum_ptr, acc, out_data, fft_data, crit, pitch_errno, hist_vars>>

\* the end of the parallel loop: every radius taken, every thread finished
EndLoop ==
    /\ main_pc = "loop"
    /\ todo = {}
    /\ \A w \in Threads : pc[w] = "idle"
    /\ main_pc' = "output"
    /\ UNCHANGED <<file_vars, smp_vars, input_vars, it, fft_sum, mode_data, todo, thread_vars, crit,
                   pitch_errno, hist_vars>>

\* the per-mode and summed output files, then the next file
WriteOutput ==
    /\ main_pc = "output"
    /\ it' = it + 1
    /\ main_pc' = "file"
    /\ UNCHANGED <<file_vars, smp_vars, input_vars, fft_sum, mode_data, todo, thread_vars, crit,
                   pitch_errno, hist_vars>>

\* the end of the work list
Finish ==
    /\ main_pc = "file"
    /\ it > Len(items)
    /\ main_pc' = "done"
    /\ UNCHANGED <<file_vars, smp_vars, input_vars, it, fft_sum, mode_data, todo, thread_vars, crit,
                   pitch_errno, hist_vars>>

Next ==
    \/ StartFile
    \/ SkipFile
    \/ \E w \in Threads : SkipIteration(w)
    \/ \E w \in Threads : BeginIteration(w)
    \/ \E w \in Threads : Remap(w)
    \/ \E w \in Threads : LabelNaN(w)
    \/ \E w \in Threads : AccumLoad(w)
    \/ \E w \in Threads : AccumStore(w)
    \/ \E w \in Threads : Extract(w)
    \/ \E w \in Threads : NextMode(w)
    \/ EndLoop
    \/ WriteOutput
    \/ Finish

Spec == Init /\ [][Next]_vars

\* the fprintf to a NULL file pointer at the end of the body of the jm loop
\* (after the addition to fft_sum, if one is under way) ends the process
Crash(w) ==
    /\ \/ pc[w] = "label" /\ ~Accumulable(fft_data[w][jm[w]].abs)
       \/ pc[w] = "store"
    /\ fp_out1[w] = "null" \/ fp_out2[w] = "null"
    /\ fft_sum' = IF pc[w] = "store"
                  THEN [fft_sum EXCEPT ![mode[w]][sum_ptr[w]] =
                            Add(acc[w], fft_data[w][jm[w]].abs)]
                  ELSE fft_sum
    /\ pc' = [t \in Threads |-> "crashed"]
    /\ main_pc' = "crashed"
    /\ UNCHANGED <<file_vars, smp_vars, input_vars, it, mode_data, todo, radius, mode, jm,
                   sum_ptr, acc, out_data, fft_data, crit, pitch_errno, hist_vars>>

\* one file whose per-radius output files may fail to open
InitFiles ==
    /\ num \in 1..MaxThreads
    /\ fixed \in {0, 2}
    /\ high_pass = FALSE
    /\ \E rd \in BOOLEAN, R \in {2, MaxRadius + 1} :
          items = << [radius |-> R, readable |-> rd, image |-> ImageB] >>
    /\ InitRest
    /\ SamplerOff
    /\ wr_fail \in SUBSET {"rip", "dat"}

\* writing through a NULL file pointer is undefined: the process ends there,
\* or the call returns and the thread goes on
NextFiles ==
    \/ Next
    \/ \E w \in Threads : Crash(w)

SpecFiles == InitFiles /\ [][NextFiles]_vars

(* ----------------- the extractor functions on any window ---------------- *)

\* transform outputs a window is made of: finite, 0/0 and x/0
CplxAny == CplxFinite \cup CplxNonFinite

\* a frequency-bin array whose window slots hold the bins of sl, remapped, and
\* whose in-range slots are labelled
WindowArray(sl) ==
    [s \in Slots |->
        IF s \in Window
        THEN [real |-> sl[s][1], imag |-> Neg(sl[s][2]), abs |-> Mag(sl[s][1], sl[s][2]),
              freq |-> IF InRange(s) THEN Fin(FreqOf(s)) ELSE Indet]
        ELSE FftIndet]

\* the records a call is made with for the array fd and the mode m: the
\* record as allocated, after pitch_phase, and after pitch_phase and snr
InputRecords(fd, m) ==
    LET p == PitchPhase(fd, m, ResZero, 0).res
    IN  {ResZero, p, Snr(fd, p, 0).res}

\* one thread that holds any window for any mode, before a call
InitExtractor ==
    /\ num = 1
    /\ high_pass = FALSE
    /\ fixed = 0
    /\ items = << [radius |-> 2, readable |-> TRUE, image |-> ImageA] >>
    /\ it = 1
    /\ main_pc = "loop"
    /\ fft_sum = [m \in Modes |-> [k \in 0..(Lim - 1) |-> Fin(0)]]
    /\ mode_data = [m \in Modes |-> [r \in Radii |-> ResZero]]
    /\ todo = {}
    /\ pc = [w \in Threads |-> "call"]
    /\ radius = [w \in Threads |-> 1]
    /\ mode \in [Threads -> Modes]
    /\ jm = [w \in Threads |-> DIM_RAD + 2]
    /\ sum_ptr = [w \in Threads |-> Lim]
    /\ acc = [w \in Threads |-> Indet]
    /\ out_data = [w \in Threads |-> [i \in OutIndex |-> <<Indet, Indet>>]]
    /\ \E sl \in [Window -> CplxAny] : fft_data = [w \in Threads |-> WindowArray(sl)]
    /\ crit = 0
    /\ pitch_errno = 0
    /\ calls = [w \in Threads |-> << >>]
    /\ cellw = [m \in Modes |-> [r \in Radii |-> {}]]
    /\ added = [m \in Modes |-> [r \in Radii |-> [s \in Slots |-> 0]]]
    /\ shared = {}
    /\ fp_out1 = [w \in Threads |-> "closed"]
    /\ fp_out2 = [w \in Threads |-> "closed"]
    /\ wr_fail = {}
    /\ SamplerOff

\* the stores of a call c of the function name with the record res: the
\* record, the error number, and the call with its return value and its input
Called(w, name, res, c) ==
    /\ mode_data' = [mode_data EXCEPT ![mode[w]][radius[w]] = c.res]
    /\ pitch_errno' = c.errno
    /\ calls' = [calls EXCEPT ![w] = << <<name, c.ret, res>> >>]
    /\ pc' = [pc EXCEPT ![w] = "called"]
    /\ UNCHANGED <<file_vars, smp_vars, input_vars, it, main_pc, fft_sum, todo, radius,
                   mode, jm, sum_ptr, acc, out_data, fft_data, crit, cellw, added, shared>>

\* status = pit.pitch_phase(fft_data[current], mode, &record)
CallPitchPhase(w) ==
    /\ pc[w] = "call"
    /\ \E v \in IndetVals :
          LET fd == Resolve(fft_data[w], v)
          IN  \E res \in InputRecords(fd, mode[w]) :
                Called(w, "pitch_phase", res, PitchPhase(fd, mode[w], res, pitch_errno))

\* status = pit.snr(fft_data[current], &record)
CallSnr(w) ==
    /\ pc[w] = "call"
    /\ \E v \in IndetVals :
          LET fd == Resolve(fft_data[w], v)
          IN  \E res \in InputRecords(fd, mode[w]) :
                Called(w, "snr", res, Snr(fd, res, pitch_errno))

\* status = pit.fwhm(fft_data[current], &record)
CallFwhm(w) ==
    /\ pc[w] = "call"
    /\ \E v \in IndetVals :
          LET fd == Resolve(fft_data[w], v)
          IN  \E res \in InputRecords(fd, mode[w]) :
                Called(w, "fwhm", res, Fwhm(fd, res, pitch_errno))

NextExtractor ==
    \/ \E w \in Threads : CallPitchPhase(w)
    \/ \E w \in Threads : CallSnr(w)
    \/ \E w \in Threads : CallFwhm(w)

SpecExtractor == InitExtractor /\ [][NextExtractor]_vars

SpecPar == InitPar /\ [][Next]_vars

(* ------------------------- notions of the claims ----------------------- *)

\* the state right after the extractor driver of thread w handled (mode, radius)
AtModeEnd(w) == pc[w] = "mode_end"

\* the state right after the remap of thread w
AfterRemap(w) == pc[w] = "label" /\ sum_ptr[w] = 0

WindowHasValid(fd) == \E i \in Window : ~IsNaN(fd[i].abs)

WindowHasValidOffMid(fd) == \E i \in Window : i # MidSlot /\ ~IsNaN(fd[i].abs)

\* the result cell of the (mode, radius) thread w is working on
Cell(w) == mode_data[mode[w]][radius[w]]

\* the remap of mode m of the annulus r of the file in process
RemappedAbs(r, m, s) ==
    RemapSlice([t \in Slots |-> FftIndet], items[it].image[r], m)[s].abs

\* the radii the loop of the file in process works on
Processed == {r \in 1..(items[it].radius - 1) : ~SkipRadius(r, items[it].radius)}

ZeroSum == [m \in Modes |-> [k \in 0..(Lim - 1) |-> Fin(0)]]

(* ------------------------------- claims -------------------------------- *)

\* C1 (as stated): whenever some bin of the scan window has a non-NaN
\* magnitude, pitch_phase returns PITCH_RET_OK.
C1_SuccessWheneverWindowValid ==
    \A w \in Threads :
        AtModeEnd(w) /\ WindowHasValid(fft_data[w])
            => calls[w][1] = <<"pitch_phase", PITCH_RET_OK>>

\* C1 (amended): whenever some bin of the scan window other than the
\* mid-frequency slot has a non-NaN magnitude, pitch_phase returns
\* PITCH_RET_OK.
C1_SuccessWhenValidOffMid ==
    \A w \in Threads :
        AtModeEnd(w) /\ WindowHasValidOffMid(fft_data[w])
            => calls[w][1] = <<"pitch_phase", PITCH_RET_OK>>

C1_Witness ==
    \E w \in Threads :
        /\ AtModeEnd(w)
        /\ WindowHasValidOffMid(fft_data[w])
        /\ \E i \in Window : IsNaN(fft_data[w][i].abs)
        /\ calls[w][1] = <<"pitch_phase", PITCH_RET_OK>>

\* C2: when the window holds a non-NaN magnitude but the maximum search
\* leaves the index unset, pitch_phase returns PITCH_RET_ERR.
C2_ErrorWhenNoMaximum ==
    \A w \in Threads :
        /\ AtModeEnd(w)
        /\ WindowHasValid(fft_data[w])
        /\ ScanMax(fft_data[w], LO_INDEX,
                   [a_max |-> Fin(-255), index |-> -1, nan |-> 1]).index < 0
        => calls[w][1] = <<"pitch_phase", PITCH_RET_ERR>>

\* C3: when every bin of the window is NaN, pitch_phase returns the NaN
\* outcome, it is the only extractor call made, and freq, amp, avg_amp, pa,
\* phase, snr and fwhm of the record are all NaN.
C3_AllNaNWindow ==
    \A w \in Threads :
        AtModeEnd(w) /\ ~WindowHasValid(fft_data[w])
            => /\ calls[w] = << <<"pitch_phase", PITCH_RET_NAN>> >>
               /\ \A f \in {"freq", "amp", "avg_amp", "pa", "phase", "snr", "fwhm"} :
                      Cell(w)[f] = NaN

C3_Witness ==
    \E w \in Threads :
        /\ AtModeEnd(w)
        /\ ~WindowHasValid(fft_data[w])
        /\ Cell(w).snr = NaN
        /\ Cell(w).fwhm = NaN

\* the iteration of radius r has gone past slot s of mode m
Passed(r, m, s) ==
    /\ r \notin todo
    /\ \A w \in Threads :
          pc[w] # "idle" /\ radius[w] = r
              => \/ m < mode[w]
                 \/ m = mode[w] /\ pc[w] \in {"extract", "mode_end"}
                 \/ m = mode[w] /\ pc[w] \in {"label", "store"} /\ s < jm[w]

\* fft_sum[m][k].abs as the loop "for (radius = r; radius < R; radius++)"
\* run by one thread leaves it, from the value v, up to where the iterations
\* have got: the k-th in-range slot of mode m of every processed radius is
\* added unless it is NaN
RECURSIVE OneThreadSum(_, _, _, _)
OneThreadSum(v, m, k, r) ==
    IF r >= items[it].radius THEN v
    ELSE LET s == FirstInRange + k
             x == RemappedAbs(r, m, s)
         IN  OneThreadSum(IF r \in Processed /\ Passed(r, m, s) /\ ~IsNaN(x)
                          THEN Add(v, x) ELSE v,
                          m, k, r + 1)

OneThread == [m \in Modes |-> [k \in 0..(Lim - 1) |-> OneThreadSum(Fin(0), m, k, 1)]]

\* C4: with any number of threads and under any interleaving, whenever no
\* update of the summed spectrum is in progress the summed spectrum is the
\* one a single thread produces from the bins the iterations have gone past
\* (no update is lost); after the parallel loop it is the summed spectrum
\* of a one-thread run.
C4_SameSumAsOneThread ==
    /\ main_pc = "loop" /\ (\A w \in Threads : pc[w] # "store")
          => fft_sum = OneThread
    /\ main_pc = "output"
          => /\ \A r \in Processed, m \in Modes, s \in Slots : Passed(r, m, s)
             /\ fft_sum = OneThread

C4_Witness ==
    /\ main_pc = "output"
    /\ \E m \in Modes, r1, r2 \in Radii :
          \E x \in cellw[m][r1], y \in cellw[m][r2] : x[1] # y[1]
    /\ \E m \in Modes, k \in 0..(Lim - 1) : Gt(fft_sum[m][k], Fin(0))

\* C5: during the parallel loop no location other than the summed spectrum
\* is written by one thread and read or written by another.
C5_NoUnsynchronizedSharing ==
    \A a \in shared, b \in shared :
        a[1] = b[1] /\ a[2] # b[2] => a[3] = "r" /\ b[3] = "r"

\* C6: within one file a result cell mode_data[mode][radius] is written only
\* by the one iteration that handles that radius, run by one thread.
C6_CellsWrittenByOwnIteration ==
    \A m \in Modes, r \in Radii :
        /\ \A x \in cellw[m][r] : x[2] = r
        /\ Cardinality(cellw[m][r]) <= 1

C6_Witness ==
    /\ main_pc = "output"
    /\ \E m \in Modes, r1, r2 \in Radii :
          /\ r1 # r2
          /\ \E x \in cellw[m][r1], y \in cellw[m][r2] : x[1] # y[1]

\* c times the double v
RECURSIVE Times(_, _)
Times(c, v) == IF c = 0 THEN Fin(0) ELSE Add(v, Times(c - 1, v))

\* the sum over the radii r..R-1 of the magnitudes added to slot s of mode m
RECURSIVE AddedSum(_, _, _)
AddedSum(m, s, r) ==
    IF r >= items[it].radius THEN Fin(0)
    ELSE Add(Times(added[m][r][s], RemappedAbs(r, m, s)), AddedSum(m, s, r + 1))

NothingAdded == \A m \in Modes, r \in Radii, s \in Slots : added[m][r][s] = 0

\* C7: when a file's loop starts every magnitude of the summed spectrum is
\* zero, and after the loop each is the sum of the magnitudes added to its
\* slot during this file's loop.
C7_SumOfThisFileOnly ==
    /\ main_pc = "loop" /\ NothingAdded /\ (\A w \in Threads : pc[w] # "store")
          => fft_sum = ZeroSum
    /\ main_pc = "output"
          => \A m \in Modes, k \in 0..(Lim - 1) :
                 fft_sum[m][k] = AddedSum(m, FirstInRange + k, 1)

C7_Witness ==
    /\ main_pc = "output"
    /\ it = 2
    /\ items[1].readable
    /\ Processed # {}
    /\ \E m \in Modes, k \in 0..(Lim - 1) : Gt(fft_sum[m][k], Fin(0))

\* C8 (as stated): for every processed (mode, radius) each remapped bin whose
\* frequency lies in [FREQ_START, FREQ_END] is added exactly once.
C8_EveryInRangeBinAddedOnce ==
    main_pc = "output"
        => \A m \in Modes, r \in Processed, s \in Slots :
               InRange(s) => added[m][r][s] = 1

\* C8 (amended): for every processed (mode, radius) each remapped bin whose
\* frequency lies in [FREQ_START, FREQ_END] is added exactly once when its
\* magnitude is not NaN and is not added when its magnitude is NaN.
C8_InRangeValidBinAddedOnce ==
    /\ \A m \in Modes, r \in Radii, s \in Slots : added[m][r][s] <= 1
    /\ main_pc = "output"
          => \A m \in Modes, r \in Processed, s \in Slots :
                 InRange(s) =>
                     added[m][r][s] = IF IsNaN(RemappedAbs(r, m, s)) THEN 0 ELSE 1

C8_Witness ==
    /\ main_pc = "output"
    /\ \E m \in Modes, r1, r2 \in Processed, s \in Slots :
          /\ InRange(s)
          /\ IsNaN(RemappedAbs(r1, m, s)) /\ added[m][r1][s] = 0
          /\ ~IsNaN(RemappedAbs(r2, m, s)) /\ added[m][r2][s] = 1

\* what pitch_phase stores for the window of thread w, the never-assigned
\* frequency labels read as v
PitchStored(w, v) == PitchPhase(Resolve(fft_data[w], v), mode[w], ResZero, 0).res

SamePitchFields(a, b) ==
    a.index = b.index /\ a.freq = b.freq /\ a.amp = b.amp /\ a.pa = b.pa
        /\ a.phase = b.phase

\* a call of the extractor of thread w returned Error
ErrorSeen(w) ==
    AtModeEnd(w) /\ \E i \in 1..Len(calls[w]) : calls[w][i][2] = PITCH_RET_ERR

C9_Records ==
    \A w \in Threads :
        AtModeEnd(w) =>
            /\ Len(calls[w]) = 2 /\ calls[w][2] = <<"snr", PITCH_RET_ERR>>
                  => /\ Cell(w).avg_amp = NaN /\ Cell(w).snr = NaN /\ Cell(w).fwhm = NaN
                     /\ \E v \in IndetVals : SamePitchFields(Cell(w), PitchStored(w, v))
            /\ Len(calls[w]) = 3 /\ calls[w][3] = <<"fwhm", PITCH_RET_ERR>>
                  => /\ Cell(w).fwhm = NaN
                     /\ \E v \in IndetVals :
                           /\ SamePitchFields(Cell(w), PitchStored(w, v))
                           /\ LET sn == Snr(fft_data[w], PitchStored(w, v), 0).res
                              IN  Cell(w).avg_amp = sn.avg_amp /\ Cell(w).snr = sn.snr

\* after an Error the thread can go on, and when the loop has ended every
\* mode of every radius of the loop has its record written
C9_Completes ==
    /\ \A w \in Threads : ErrorSeen(w) => ENABLED NextMode(w)
    /\ main_pc = "output" => \A m \in Modes, r \in Processed : cellw[m][r] # {}

\* the step a thread takes after an Error is the head of the next mode, or
\* the end of the iteration after the last mode
C9_Continues ==
    \A w \in Threads :
        ErrorSeen(w) /\ pc'[w] # pc[w]
            => /\ mode'[w] = mode[w] + 1
               /\ pc'[w] = IF mode[w] < M_FIN THEN "remap" ELSE "idle"

\* C9: after snr returned Error the record has avg_amp, snr and fwhm NaN
\* and the freq, amp, pitch and phase pitch_phase stored; after fwhm returned
\* Error only fwhm is NaN; and after any Error the thread goes on with the
\* next mode and radius and the file's loop ends with every record written.
C9_ErrorsRecoveredPerRecord ==
    /\ [](C9_Records /\ C9_Completes)
    /\ [][C9_Continues]_vars

C9_Witness ==
    \E w \in Threads :
        /\ AtModeEnd(w)
        /\ Len(calls[w]) = 2
        /\ calls[w][2] = <<"snr", PITCH_RET_ERR>>
        /\ ~IsNaN(Cell(w).amp)

\* C10: after the remap of mode m, slot N/2+1+k holds bin m*N+k for
\* 0 <= k <= N/2-1 and slot k-N/2+1 holds it for N/2+1 <= k <= N-1, with the
\* real part unchanged, the imaginary part negated and the magnitude of the
\* pair; and a slice whose only non-zero bin is bin 0 has a non-zero
\* magnitude at the mid-frequency slot and at no other slot.
C10_RemapRule ==
    \A w \in Threads :
        AfterRemap(w) =>
            LET N      == DIM_RAD
                bin(k) == out_data[w][mode[w] * N + k]
                holds(s, k) ==
                    /\ fft_data[w][s].real = bin(k)[1]
                    /\ fft_data[w][s].imag = Neg(bin(k)[2])
                    /\ fft_data[w][s].abs = Mag(bin(k)[1], bin(k)[2])
            IN  /\ \A k \in 0..((N \div 2) - 1) : holds((N \div 2) + 1 + k, k)
                /\ \A k \in ((N \div 2) + 1)..(N - 1) : holds(k - (N \div 2) + 1, k)
                /\ (/\ bin(0) # <<Fin(0), Fin(0)>>
                    /\ \A k \in 1..(N - 1) : bin(k) = <<Fin(0), Fin(0)>>)
                      => /\ Gt(fft_data[w][MidSlot].abs, Fin(0))
                         /\ \A s \in Slots \ {MidSlot} : fft_data[w][s].abs = Fin(0)

C10_Witness ==
    \E w \in Threads :
        /\ AfterRemap(w)
        /\ mode[w] = 1
        /\ out_data[w][DIM_RAD] = <<Fin(3), Fin(-4)>>
        /\ \A k \in 1..(DIM_RAD - 1) : out_data[w][DIM_RAD + k] = <<Fin(0), Fin(0)>>
        /\ fft_data[w][MidSlot].imag = Fin(4)
        /\ fft_data[w][MidSlot].abs = Fin(5)
        /\ \A s \in Slots \ {MidSlot} : fft_data[w][s].abs = Fin(0)

\* native bin N/2 of the slice of the mode of thread w
BinHalf(w) == out_data[w][mode[w] * DIM_RAD + (DIM_RAD \div 2)]

\* C11 (as stated): after the remap the most negative slot (slot 1) holds
\* the real part, the imaginary part (in either sign) and the magnitude of
\* native bin N/2.
C11_BinHalfAtAxisStart ==
    \A w \in Threads :
        AfterRemap(w) =>
            /\ fft_data[w][1].real = BinHalf(w)[1]
            /\ fft_data[w][1].imag \in {BinHalf(w)[2], Neg(BinHalf(w)[2])}
            /\ fft_data[w][1].abs = Mag(BinHalf(w)[1], BinHalf(w)[2])

\* C11 (amended): after the remap the most positive slot (slot DIM_RAD+1)
\* holds the real part, the negated imaginary part and the magnitude of
\* native bin N/2; slot 1 holds its magnitude only, and the real and
\* imaginary parts of slot 1 are never written.
C11_BinHalfAtAxisEnd ==
    \A w \in Threads :
        /\ fft_data[w][1].real = Indet /\ fft_data[w][1].imag = Indet
        /\ AfterRemap(w) =>
              /\ fft_data[w][DIM_RAD + 1].real = BinHalf(w)[1]
              /\ fft_data[w][DIM_RAD + 1].imag = Neg(BinHalf(w)[2])
              /\ fft_data[w][DIM_RAD + 1].abs = Mag(BinHalf(w)[1], BinHalf(w)[2])
              /\ fft_data[w][1].abs = Mag(BinHalf(w)[1], BinHalf(w)[2])

C11_Witness ==
    \E w \in Threads :
        /\ AfterRemap(w)
        /\ BinHalf(w) = <<Fin(3), Fin(-4)>>
        /\ fft_data[w][DIM_RAD + 1].imag = Fin(4)
        /\ fft_data[w][1].abs = Fin(5)
        /\ fft_data[w][1].real = Indet
        /\ fft_data[w][2].abs # Fin(5)

\* the state of thread w after the jm loop of its (mode, radius)
AfterLabels(w) == pc[w] \in {"extract", "mode_end"}

\* what the remap stored for the mode of thread w
Remapped(w) == RemapSlice([t \in Slots |-> FftIndet], out_data[w], mode[w])

\* C12: after the jm loop, with high-pass enabled every in-range bin whose
\* frequency f satisfies -0.25*mode < f < 0.25*mode has magnitude, real and
\* imaginary part zero and keeps its frequency label f; every other bin
\* (in range at 0.25*mode or farther from zero, or out of range) and, with
\* high-pass disabled, every bin has the real part, imaginary part and
\* magnitude the remap stored.
C12_HighPassZeroesNearZero ==
    \A w \in Threads :
        AfterLabels(w) =>
            \A s \in Slots :
                /\ InRange(s) => fft_data[w][s].freq = Fin(FreqOf(s))
                /\ IF high_pass /\ InRange(s)
                      /\ FreqOf(s) < mode[w] /\ FreqOf(s) > 0 - mode[w]
                   THEN /\ fft_data[w][s].abs = Fin(0)
                        /\ fft_data[w][s].real = Fin(0)
                        /\ fft_data[w][s].imag = Fin(0)
                   ELSE /\ fft_data[w][s].abs = Remapped(w)[s].abs
                        /\ fft_data[w][s].real = Remapped(w)[s].real
                        /\ fft_data[w][s].imag = Remapped(w)[s].imag

C12_Witness ==
    \E w \in Threads :
        /\ AfterLabels(w)
        /\ high_pass
        /\ mode[w] = 1
        /\ Remapped(w)[MidSlot].abs = Fin(5)
        /\ fft_data[w][MidSlot].abs = Fin(0)
        /\ fft_data[w][MidSlot].freq = Fin(0)
        /\ fft_data[w][MidSlot + 1].abs = Fin(5)
        /\ fft_data[w][MidSlot + 1].freq = Fin(1)

\* count_theta and the level of lnr of the pair that writes entry i
ThetaOf(i) == (i \div DIM_RAD) + 2

LevelOf(i) == i % DIM_RAD

\* the condition of each exclusion rule at (ct, lnr)
RuleMatches(name, ct, lnr) ==
    CASE name = "zero"      -> zero /\ (ct < 4 \/ ct > ZeroBandHi)
      [] name = "mask_line" -> mask_line /\ lnr <= log_bar
      [] name = "reverse"   -> reverse /\ (lnr > LogRad \/ lnr > LogItrad)
      [] name = "fixed"     -> fixed # 0 /\ (lnr > log_hi \/ lnr < log_lo)
      [] name = "standard"  -> ~reverse /\ fixed = 0 /\ (lnr > LogItrad \/ lnr < LogRad)
      [] name = "mask"      -> mask /\ Ge(mat[ct][lnr], ctr_val)

RuleOrder == <<"zero", "mask_line", "reverse", "fixed", "standard", "mask">>

\* the first rule of RuleOrder from position k on that matches, "copy" if none
RECURSIVE FirstMatch(_, _, _)
FirstMatch(k, ct, lnr) ==
    IF k > Len(RuleOrder) THEN "copy"
    ELSE IF RuleMatches(RuleOrder[k], ct, lnr) THEN RuleOrder[k]
    ELSE FirstMatch(k + 1, ct, lnr)

\* C13: every entry the sampler has reached was written once, by the first
\* rule that matches its (angle step, log-radius step) pair in the order
\* zero band, line mask, reverse cutoff, fixed cutoff, standard cutoff,
\* intensity mask (the pixel is copied when none matches); the entries not
\* reached yet are not written; and the sampled annulus has exactly
\* DIM_RAD*DIM_THT written entries.
C13_FirstMatchingRuleDecides ==
    smp_pc \in {"theta", "rad", "done"} =>
        /\ \A i \in InIndex :
              IF i < counter
              THEN rule[i] = << FirstMatch(1, ThetaOf(i), LevelOf(i)) >>
              ELSE rule[i] = << >>
        /\ smp_pc = "done" => counter = DIM_RAD * DIM_THT

C13_Witness ==
    /\ smp_pc = "done"
    /\ zero /\ mask_line /\ mask
    /\ \E i \in InIndex :
          /\ RuleMatches("zero", ThetaOf(i), LevelOf(i))
          /\ RuleMatches("mask_line", ThetaOf(i), LevelOf(i))
          /\ rule[i] = << "zero" >>
    /\ \E i \in InIndex :
          /\ RuleMatches("mask_line", ThetaOf(i), LevelOf(i))
          /\ RuleMatches("standard", ThetaOf(i), LevelOf(i))
          /\ rule[i] = << "mask_line" >>
    /\ \E i, j \in InIndex : rule[i] = << "mask" >> /\ rule[j] = << "copy" >>

\* the entry i of in_data was written by the branch that copies the pixel
Included(i) == rule[i] = << "copy" >>

\* the sum of f(real channel) over the included entries from i up to the
\* entries written so far, in the order of the writes
RECURSIVE SumIncludedFrom(_, _)
SumIncludedFrom(i, absolute) ==
    IF i >= counter THEN Fin(0)
    ELSE IF Included(i)
         THEN Add(IF absolute THEN Fabs(in_data[i][1]) ELSE in_data[i][1],
                  SumIncludedFrom(i + 1, absolute))
         ELSE SumIncludedFrom(i + 1, absolute)

\* every written entry that a rule excluded is zero in both channels
ExcludedAreZero ==
    \A i \in InIndex :
        i < counter /\ ~Included(i) => in_data[i] = <<Fin(0), Fin(0)>>

\* C14 (as stated): after the annulus is sampled every excluded sample is
\* zero in both channels and the normalization is the sum of the magnitudes
\* (absolute values) of the included real-channel samples.
C14_NormaIsSumOfMagnitudes ==
    smp_pc = "done" =>
        /\ ExcludedAreZero
        /\ norma = SumIncludedFrom(0, TRUE)

\* C14 (amended): while and after the annulus is sampled every excluded
\* sample is zero in both channels and adds nothing to the normalization,
\* which is the signed sum of the included real-channel samples.
C14_NormaIsSignedSum ==
    smp_pc \in {"theta", "rad", "done"} =>
        /\ ExcludedAreZero
        /\ \A i \in InIndex : i < counter /\ Included(i)
              => in_data[i] = <<mat[ThetaOf(i)][LevelOf(i)], Fin(0)>>
        /\ norma = SumIncludedFrom(0, FALSE)

C14_Witness ==
    /\ smp_pc = "done"
    /\ \E i \in InIndex : Included(i) /\ Lt(in_data[i][1], Fin(0))
    /\ \E i \in InIndex : Included(i) /\ Gt(in_data[i][1], Fin(0))
    /\ \E i \in InIndex :
          /\ i < counter /\ ~Included(i)
          /\ mat[ThetaOf(i)][LevelOf(i)] # Fin(0)
    /\ norma # SumIncludedFrom(0, TRUE)

\* the band of a fixed annulus as the usage text gives it: from the log of
\* the inner radius to the log of the inner radius plus the width
InFixedBand(lnr) ==
    /\ lnr >= LogOf(radius[1])
    /\ lnr <= LogOf(radius[1] + fixed)

\* C15: with a fixed annulus width, a sample that the zero band and the line
\* mask let through is cut off by the fixed rule exactly when its log-radius
\* lies outside [ln(r), ln(r + w)]; samples inside the band reach the copy.
C15_FixedBandIsInnerPlusWidth ==
    fixed # 0 =>
        \A i \in InIndex :
            i < counter /\ rule[i] \notin {<< "zero" >>, << "mask_line" >>}
                => (rule[i] = << "fixed" >> <=> ~InFixedBand(LevelOf(i)))

\* the radius r of a file of outer radius R lies in the inner or the outer
\* exclusion band of the fixed width (r <= w/2 or r >= R - w/2, in halves)
InExclusionBand(r, R) ==
    fixed # 0 /\ (2 * r <= fixed \/ 2 * r >= 2 * R - fixed)

\* thread w takes the radius r in this step
Takes(w, r) == r \in todo /\ todo' = todo \ {r} /\ radius'[w] = r

\* C16: with a fixed annulus width, the iteration of a radius in the inner or
\* outer exclusion band is over in the step that takes it and changes neither
\* the summed spectrum, nor a result record, nor a worker buffer, nor what was
\* added or recorded so far.
C16_SkippedIterationChangesNothing ==
    [][\A w \in Threads : \A r \in Radii :
          Takes(w, r) /\ InExclusionBand(r, items[it].radius)
              => /\ fft_sum' = fft_sum
                 /\ mode_data' = mode_data
                 /\ out_data' = out_data
                 /\ fft_data' = fft_data
                 /\ in_data' = in_data
                 /\ added' = added
                 /\ cellw' = cellw
                 /\ pc'[w] = "idle"]_vars

\* a radius of the outer band was skipped after another radius of the file was
\* processed, and the record of the skipped radius is as it was allocated
C16_Witness ==
    /\ fixed # 0
    /\ main_pc = "loop"
    /\ \E w \in Threads : \E r \in Radii :
          /\ radius[w] = r /\ pc[w] = "idle"
          /\ InExclusionBand(r, items[it].radius)
          /\ r > fixed
          /\ \A m \in Modes : mode_data[m][r] = ResZero
          /\ \E q \in Radii : \E m \in Modes :
                /\ ~InExclusionBand(q, items[it].radius)
                /\ cellw[m][q] # {}
                /\ fft_sum # ZeroSum

\* thread w holds a remapped and labelled slice the extractor is called with
HasSlice(w) == pc[w] \in {"extract", "mode_end"}

\* the records the extractor functions are called with for the slice fd of
\* thread w: the cell, the cell after pitch_phase and the cell after snr
RecordsFor(w, fd) ==
    LET p == PitchPhase(fd, mode[w], Cell(w), 0).res
    IN  {Cell(w), p, Snr(fd, p, 0).res}

\* the second of two calls returned what the first returned and left the
\* record as the first left it
SameOutcome(c1, c2) == c2.ret = c1.ret /\ c2.res = c1.res

\* the value of get_err before the first call, after it and after the second
ErrUntouched(e0, c1, c2) == c1.errno = e0 /\ c2.errno = e0

\* get_err changes only in a call that fails, to a code of the header, and
\* the repeated call leaves it at that
ErrOnlyLastError(e0, c1, c2) ==
    /\ c2.errno = c1.errno
    /\ c1.errno # e0 =>
          /\ c1.ret # PITCH_RET_OK
          /\ c1.errno \in {PITCH_ERR_INVALID, PITCH_ERR_MAX_AMP, PITCH_ERR_ALLNANS,
                           PITCH_ERR_SIGMA, PITCH_ERR_SCANFWHM}

\* P(e0, c1, c2) for the two calls of each of the three functions on every
\* slice and record of thread w
TwoCalls(w, P(_, _, _)) ==
    \A v \in IndetVals :
        LET fd == Resolve(fft_data[w], v)
        IN  \A res \in RecordsFor(w, fd) :
              /\ LET c1 == PitchPhase(fd, mode[w], res, pitch_errno)
                     c2 == PitchPhase(fd, mode[w], res, c1.errno)
                 IN  SameOutcome(c1, c2) /\ P(pitch_errno, c1, c2)
              /\ LET c1 == Snr(fd, res, pitch_errno)
                     c2 == Snr(fd, res, c1.errno)
                 IN  SameOutcome(c1, c2) /\ P(pitch_errno, c1, c2)
              /\ LET c1 == Fwhm(fd, res, pitch_errno)
                     c2 == Fwhm(fd, res, c1.errno)
                 IN  SameOutcome(c1, c2) /\ P(pitch_errno, c1, c2)

\* C17 (as stated): two calls of pitch_phase, snr or fwhm with the same
\* frequency-bin array and the same record return the same code and leave the
\* same record, and nothing else persists: get_err is after the calls what it
\* was before them.
C17_NoStateButTheRecord ==
    \A w \in Threads : HasSlice(w) => TwoCalls(w, ErrUntouched)

\* C17 (amended): two calls of pitch_phase, snr or fwhm with the same
\* frequency-bin array and the same record return the same code and leave the
\* same record; besides the record only the error number persists, which a
\* failing call sets to its error code and no call clears.
C17_OnlyErrnoPersists ==
    \A w \in Threads : HasSlice(w) => TwoCalls(w, ErrOnlyLastError)

\* the extractor of thread w has run, one of its calls returned Error and
\* left its code in the error number, and the same call again fails again
C17_Witness ==
    \E w \in Threads :
        /\ ErrorSeen(w)
        /\ pitch_errno \in {PITCH_ERR_SIGMA, PITCH_ERR_ALLNANS, PITCH_ERR_SCANFWHM}
        /\ \E v \in IndetVals :
              LET fd == Resolve(fft_data[w], v)
                  c1 == Fwhm(fd, Cell(w), 0)
              IN  c1.ret = PITCH_RET_ERR /\ c1.errno # 0
                    /\ SameOutcome(c1, Fwhm(fd, Cell(w), c1.errno))

\* pitch_phase of the last extractor run of thread w returned Success
PitchSucceeded(w) ==
    AtModeEnd(w) /\ Len(calls[w]) >= 1 /\ calls[w][1] = <<"pitch_phase", PITCH_RET_OK>>

\* |x| <= 90 as a comparison of doubles (false for NaN)
WithinQuarterTurn(x) == ~IsNaN(x) /\ ~Gt(Fabs(x), Fin(90))

\* C18: whenever pitch_phase returned Success the pitch angle stored in the
\* record is at most 90 degrees in magnitude, for every mode and every
\* frequency label of the bin of the maximum.
C18_PitchAngleWithinQuarterTurn ==
    \A w \in Threads : PitchSucceeded(w) => WithinQuarterTurn(Cell(w).pa)

\* the same for a maximum at a slot whose frequency label the jm loop assigned
C18_AtLabelledSlots ==
    \A w \in Threads :
        PitchSucceeded(w) /\ InRange(Cell(w).index) => WithinQuarterTurn(Cell(w).pa)

\* C19: when a per-radius .rip or .dat file cannot be opened the program does
\* not crash: no step of a worker that holds a NULL file pointer ends the
\* process, so the worker finishes its (mode, radius) and goes on.
C19_NoCrashOnOpenFailure ==
    main_pc # "crashed"

\* the slots the maximum search compares: the window without the
\* mid-frequency slot, NaN magnitudes left out
Compared(w) == {i \in Window : i # MidSlot /\ ~IsNaN(fft_data[w][i].abs)}

\* C20: after pitch_phase returned Success the stored index lies in
\* [LO_INDEX, HI_INDEX] and is not the mid-frequency slot, the stored amplitude
\* is the magnitude at that index and no other compared bin of the window has
\* a greater magnitude, and the stored frequency is the label of that bin.
C20_MaximumOfWindowOffMid ==
    \A w \in Threads :
        PitchSucceeded(w) =>
            /\ Cell(w).index \in Window
            /\ Cell(w).index # MidSlot
            /\ Cell(w).amp = fft_data[w][Cell(w).index].abs
            /\ \A i \in Compared(w) : ~Gt(fft_data[w][i].abs, Cell(w).amp)
            /\ \E v \in IndetVals :
                  Cell(w).freq = Resolve(fft_data[w], v)[Cell(w).index].freq

\* the maximum is not at the first slot of the window, a compared bin is
\* smaller, and the mid-frequency slot holds a magnitude that is not smaller
C20_Witness ==
    \E w \in Threads :
        /\ PitchSucceeded(w)
        /\ Cell(w).index > LO_INDEX
        /\ InRange(Cell(w).index)
        /\ \E i \in Compared(w) : Lt(fft_data[w][i].abs, Cell(w).amp)
        /\ ~Lt(fft_data[w][MidSlot].abs, Cell(w).amp)

\* the names of the extractor calls of thread w, in the order of the calls
CallNames(w) == [i \in 1..Len(calls[w]) |-> calls[w][i][1]]

\* C21: for every (mode, radius) the extractor calls are pitch_phase, then
\* snr, then fwhm; snr is called only after pitch_phase returned Success and
\* fwhm only after snr did not return Error and stored the average amplitude
\* in the record.
C21_StagedCalls ==
    \A w \in Threads :
        AtModeEnd(w) =>
            /\ CallNames(w) \in {<<"pitch_phase">>, <<"pitch_phase", "snr">>,
                                 <<"pitch_phase", "snr", "fwhm">>}
            /\ Len(calls[w]) >= 2 => calls[w][1][2] = PITCH_RET_OK
            /\ Len(calls[w]) = 1 => calls[w][1][2] # PITCH_RET_OK
            /\ Len(calls[w]) = 3 =>
                  /\ calls[w][2][2] # PITCH_RET_ERR
                  /\ \E v \in IndetVals :
                        Cell(w).avg_amp = Snr(fft_data[w], PitchStored(w, v), 0).res.avg_amp
            /\ Len(calls[w]) = 2 => calls[w][2][2] = PITCH_RET_ERR

\* all three stages ran, snr with the NaN outcome
C21_Witness ==
    \E w \in Threads :
        /\ AtModeEnd(w)
        /\ Len(calls[w]) = 3
        /\ calls[w][2] = <<"snr", PITCH_RET_NAN>>

\* thread w has made its call, of the function name
HasCalled(w, name) == pc[w] = "called" /\ calls[w][1][1] = name

\* the return value of the call of thread w and the record it was made with
RetOf(w) == calls[w][1][2]

InputOf(w) == calls[w][1][3]

\* the population standard deviation of the compared magnitudes of thread w
\* is zero: there is one, all are numbers and all are equal
SigmaZero(w) ==
    /\ Compared(w) # {}
    /\ \A i, j \in Compared(w) :
          IsFin(fft_data[w][i].abs) /\ fft_data[w][i].abs = fft_data[w][j].abs

\* C22: snr returns Error with PITCH_ERR_SIGMA and stores no SNR value when
\* the standard deviation of the valid non-mid-slot magnitudes of the window
\* is zero (one valid bin included); otherwise, when a bin is valid, it does
\* not return Error, and it returns the NaN outcome when the stored ratio is
\* NaN and Success when it is a number.
C22_SigmaErrorAndNaNOutcome ==
    \A w \in Threads :
        HasCalled(w, "snr") =>
            /\ SigmaZero(w) =>
                  /\ RetOf(w) = PITCH_RET_ERR
                  /\ pitch_errno = PITCH_ERR_SIGMA
                  /\ Cell(w).snr = InputOf(w).snr
            /\ Compared(w) # {} /\ ~SigmaZero(w) =>
                  /\ pitch_errno = 0
                  /\ RetOf(w) = IF IsNaN(Cell(w).snr) THEN PITCH_RET_NAN ELSE PITCH_RET_OK

\* snr was called on a window with exactly one valid bin off the mid slot,
\* after pitch_phase stored that bin as the maximum
C22_Witness ==
    \E w \in Threads :
        /\ HasCalled(w, "snr")
        /\ Cardinality(Compared(w)) = 1
        /\ InputOf(w).index \in Compared(w)
        /\ RetOf(w) = PITCH_RET_ERR
        /\ ~IsNaN(fft_data[w][MidSlot].abs)

\* snr was called on a window whose ratio is NaN and returned the NaN outcome
C22_NaNOutcomeSeen ==
    \E w \in Threads :
        /\ HasCalled(w, "snr")
        /\ RetOf(w) = PITCH_RET_NAN
        /\ IsNaN(Cell(w).snr)

\* the half-maximum limit of a record: max - (max - average)/2
Limit(res) == Sub(res.amp, Half(Sub(res.amp, res.avg_amp)))

\* the window bins of thread w with a magnitude below the limit of res
BelowLimit(w, res) == {i \in Window : Lt(fft_data[w][i].abs, Limit(res))}

\* C23: fwhm called with a record whose index is in the window returns Error
\* with PITCH_ERR_SCANFWHM and stores no FWHM value whenever above the index,
\* or below it, no bin of the window has a magnitude below the limit; this
\* includes an index at the first or the last slot of the window.
C23_MissingCrossingIsError ==
    \A w \in Threads :
        HasCalled(w, "fwhm") /\ InputOf(w).index \in Window
          /\ (\/ \A i \in BelowLimit(w, InputOf(w)) : i < InputOf(w).index
              \/ \A i \in BelowLimit(w, InputOf(w)) : i > InputOf(w).index)
            => /\ RetOf(w) = PITCH_RET_ERR
               /\ pitch_errno = PITCH_ERR_SCANFWHM
               /\ Cell(w) = InputOf(w)

\* fwhm was called for a maximum at the first slot of the window, with bins
\* below the limit above it
C23_Witness ==
    \E w \in Threads :
        /\ HasCalled(w, "fwhm")
        /\ InputOf(w).index = LO_INDEX
        /\ InputOf(w).amp = fft_data[w][LO_INDEX].abs
        /\ \E i \in BelowLimit(w, InputOf(w)) : i > LO_INDEX /\ i # MidSlot
        /\ RetOf(w) = PITCH_RET_ERR

\* the bins the scans of fwhm test on the two sides of the index of res: the
\* window bins other than the mid-frequency slot with a magnitude below the limit
CrossAbove(w, res) == {i \in BelowLimit(w, res) : i > res.index /\ i # MidSlot}

CrossBelow(w, res) == {i \in BelowLimit(w, res) : i < res.index /\ i # MidSlot}

\* the least and the greatest element of a non-empty set of slots
MinOf(S) == CHOOSE i \in S : \A j \in S : i <= j

MaxOf(S) == CHOOSE i \in S : \A j \in S : i >= j

\* the window bins of thread w with a magnitude at or above the limit of res
AtOrAbove(w, res) ==
    {i \in Window : ~IsNaN(fft_data[w][i].abs) /\ ~Lt(fft_data[w][i].abs, Limit(res))}

\* a single peak: the bins at or above the limit are consecutive and hold the
\* index of res, and every other bin of the window is below the limit
SinglePeak(w, res) ==
    /\ res.index \in AtOrAbove(w, res)
    /\ \A i \in Window :
          MinOf(AtOrAbove(w, res)) <= i /\ i <= MaxOf(AtOrAbove(w, res))
              => i \in AtOrAbove(w, res)
    /\ \A i \in Window : i \notin AtOrAbove(w, res) => i \in BelowLimit(w, res)

\* C24: when fwhm returns Success both crossings exist and the stored value
\* is the number of bins from the bin above the nearest bin below the limit
\* on the low side to the bin below the nearest one on the high side, the
\* mid-frequency slot not being tested; for a single peak of w consecutive
\* bins at or above the limit the stored value is w or w + 1.
C24_FwhmCountsBinsBetweenCrossings ==
    \A w \in Threads :
        HasCalled(w, "fwhm") /\ RetOf(w) = PITCH_RET_OK =>
            LET res == InputOf(w)
            IN  /\ CrossAbove(w, res) # {} /\ CrossBelow(w, res) # {}
                /\ Cell(w).fwhm =
                      Fin((MinOf(CrossAbove(w, res)) - 1) - (MaxOf(CrossBelow(w, res)) + 1) + 1)
                /\ SinglePeak(w, res) =>
                      Cell(w).fwhm \in {Fin(Cardinality(AtOrAbove(w, res))),
                                        Fin(Cardinality(AtOrAbove(w, res)) + 1)}

\* a single peak next to the mid-frequency slot, which is below the limit and
\* is counted: the stored value is w + 1
C24_Witness ==
    \E w \in Threads :
        /\ HasCalled(w, "fwhm") /\ RetOf(w) = PITCH_RET_OK
        /\ SinglePeak(w, InputOf(w))
        /\ MidSlot \in BelowLimit(w, InputOf(w))
        /\ Cell(w).fwhm = Fin(Cardinality(AtOrAbove(w, InputOf(w))) + 1)

\* a single peak whose stored value is w
C24_ExactSeen ==
    \E w \in Threads :
        /\ HasCalled(w, "fwhm") /\ RetOf(w) = PITCH_RET_OK
        /\ SinglePeak(w, InputOf(w))
        /\ Cell(w).fwhm = Fin(Cardinality(AtOrAbove(w, InputOf(w))))

\* the rows of the per-mode output of the file in process: for (j = 1; j <= radius; j++)
OutputRows == 1..items[it].radius

\* C25: every record the per-mode output of a file prints (the rows of the
\* radii 1..R of every mode) was written by the extractor driver in an
\* iteration of that file's loop.
C25_OutputRowsWrittenByThisFile ==
    main_pc = "output" =>
        \A m \in Modes : \A j \in OutputRows : cellw[m][j] # {}

\* C26: when the extractor is called, the magnitude, the real part, the
\* imaginary part and the frequency label of every bin of the scan window
\* have been assigned (none is the content of uninitialized storage), and
\* every slot of the window is a slot the jm loop labels.
C26_WindowAssignedBeforeExtract ==
    \A w \in Threads :
        pc[w] = "extract" =>
            \A i \in Window :
                /\ fft_data[w][i].abs # Indet
                /\ fft_data[w][i].real # Indet
                /\ fft_data[w][i].imag # Indet
                /\ fft_data[w][i].freq # Indet
                /\ InRange(i)

\* expf(lnr) for the level of lnr, the inverse of LogOf
ExpOf(l) == l + 1

\* the dimensions of the smallest image whose derived outer radius,
\* (dim-1)/2 of the shorter side, is the radius of the file in process
x_dim == 2 * items[it].radius + 1

y_dim == 2 * items[it].radius + 1

\* the centre: ((dim-1)/2)+1 on each axis
x_0 == ((x_dim - 1) \div 2) + 1

y_0 == ((y_dim - 1) \div 2) + 1

\* (cosf, sinf) of the angle of the theta count ct, for the angles of the
\* four half-axes, where |x| and |y| take their largest values
CosSin(ct) ==
    CASE (ct - 2) % 4 = 0 -> <<1, 0>>
      [] (ct - 2) % 4 = 1 -> <<0, 1>>
      [] (ct - 2) % 4 = 2 -> <<-1, 0>>
      [] OTHER -> <<0, -1>>

\* a=(int)x+x_0 and b=(int)y+y_0 of the entry i of in_data
PixelOf(i) ==
    <<ExpOf(LevelOf(i)) * CosSin(ThetaOf(i))[1] + x_0,
      ExpOf(LevelOf(i)) * CosSin(ThetaOf(i))[2] + y_0>>

\* the entry i was written by a branch that evaluated mat[a][b]
ReadsPixel(i) == i < counter /\ rule[i] \in {<< "copy" >>, << "mask" >>}

InImage(p) == p[1] >= 1 /\ p[1] <= x_dim /\ p[2] >= 1 /\ p[2] <= y_dim

\* C27: every pixel read mat[a][b] of the sampler has 1 <= a <= x_dim and
\* 1 <= b <= y_dim, for every radius and every combination of the flags.
C27_PixelReadsInsideImage ==
    \A i \in InIndex : ReadsPixel(i) => InImage(PixelOf(i))

\* the same without -f: the standard and the reverse cutoff keep the reads
\* within the outer radius
C27_InsideWithoutFixed ==
    fixed = 0 => \A i \in InIndex : ReadsPixel(i) => InImage(PixelOf(i))

\* thread w is at an in-range slot of the jm loop, where fft_sum[mode][sum_ptr]
\* is accessed when the magnitude is a number
AtAccumulation(w) == pc[w] \in {"label", "store"}

\* C28: fft_sum has M_FIN - M_INI + 1 rows of lim slots; the rows and slots
\* the program keeps are within them, and at every in-range slot of the jm
\* loop the mode is a row of the array and sum_ptr is below lim.
C28_SumIndicesInBounds ==
    /\ DOMAIN fft_sum \subseteq 0..(M_FIN - M_INI)
    /\ \A m \in DOMAIN fft_sum : DOMAIN fft_sum[m] = 0..(Lim - 1)
    /\ \A w \in Threads :
          AtAccumulation(w) =>
              /\ mode[w] \in 0..(M_FIN - M_INI)
              /\ sum_ptr[w] \in 0..(Lim - 1)

\* a thread adds to the last slot of the last row
C28_Witness ==
    \E w \in Threads :
        /\ pc[w] = "store"
        /\ mode[w] = M_FIN
        /\ sum_ptr[w] = Lim - 1

\* C29: the summed spectrum does not depend on the high-pass flag: with the
\* flag set or not, it is the sum of the remapped magnitudes of the bins the
\* iterations have gone past, as they were before any high-pass zeroing.
C29_SumIndependentOfHighPass ==
    \A hp \in BOOLEAN :
        high_pass = hp /\ main_pc \in {"loop", "output"}
          /\ (\A w \in Threads : pc[w] # "store")
            => fft_sum = OneThread

\* under -h a bin the high-pass zeroed in the thread's array has been added to
\* the summed spectrum with its magnitude
C29_Witness ==
    /\ high_pass
    /\ \E w \in Threads : \E s \in Slots :
          /\ AfterLabels(w)
          /\ HighPassed(s, mode[w]) /\ InRange(s)
          /\ fft_data[w][s].abs = Fin(0)
          /\ Gt(RemappedAbs(radius[w], mode[w], s), Fin(0))
          /\ Gt(fft_sum[mode[w]][s - FirstInRange], Fin(0))

\* C30: for every mode of the loop, mode 0 included, a Success of pitch_phase
\* stores a phase angle computed without a division by zero: the divisor, the
\* mode, is not zero, and the phase of a bin with finite parts is a number.
C30_PhaseWithoutDivisionByZero ==
    \A w \in Threads :
        PitchSucceeded(w) =>
            /\ mode[w] # 0
            /\ IsFin(fft_data[w][Cell(w).index].real)
                 /\ IsFin(fft_data[w][Cell(w).index].imag)
                   => IsFin(Cell(w).phase)

====
